---- MODULE Spec2Model ----
(***************************************************************************)
(* Authorization/Trust Engine (ChallengeAuth) and Message Router           *)
(* (TransportManager) of the chat bridge, as a state machine.              *)
(*                                                                         *)
(* Strings are TLA+ strings; the string conversions of the source          *)
(* (template keys, trim, toLowerCase, split, replace, includes, the digit  *)
(* regular expression) are computed character by character.  Time is       *)
(* milliseconds, as returned by Date.now().                                *)
(***************************************************************************)
EXTENDS Integers, Sequences, FiniteSets, TLC

VARIABLES
  now,                \* Date.now()
  authenticatedChats, \* ChallengeAuth.authenticatedChats : Set<key>
  pendingChallenges,  \* ChallengeAuth.pendingChallenges  : Map<key, PendingChallenge>
  blockedUsers,       \* ChallengeAuth.blockedUsers       : Map<key, BlockedUser>
  trustedUsers,       \* ChallengeAuth.trustedUsers       : Map<userKey, TrustedUser>
  authorizedChannels, \* ChallengeAuth.authorizedChannels : Map<channelKey, AuthorizedChannel>
  seenChannels,       \* ChallengeAuth.seenChannels       : Map in insertion order
  secretStorage,      \* ChallengeAuth.secretStorage is attached (TRUE) or null (FALSE)
  ledger,             \* what SecretStorage holds under STORAGE_KEY: <<>> or <<document>>
  storing,            \* documents handed to secretStorage.store and not yet written
  storeFailing,       \* SecretStorage rejects get and store
  messageQueue,       \* TransportManager.messageQueue
  waitingResolver,    \* TransportManager.waitingResolver (registered or null)
  calls,              \* the waitForMessage calls of the consumer, in order
  resolverOf,         \* the call whose resolve is the waitingResolver (0: none)
  accepted,           \* history: the messages accepted for delivery, in order
  revoked             \* history: user keys untrusted and not trusted again since

engineVars == <<authenticatedChats, pendingChallenges, blockedUsers, trustedUsers,
                authorizedChannels, seenChannels, secretStorage, ledger, storing,
                storeFailing>>
consumerVars == <<calls, resolverOf, accepted>>
routerVars == <<messageQueue, waitingResolver, calls, resolverOf, accepted>>
vars == <<now, authenticatedChats, pendingChallenges, blockedUsers, trustedUsers,
          authorizedChannels, seenChannels, secretStorage, ledger, storing,
          storeFailing, messageQueue, waitingResolver, calls, resolverOf, accepted,
          revoked>>

-----------------------------------------------------------------------------
(* Bounds of the model *)

\* number of clock steps explored
MaxTime == 2
\* messages the queue holds before further deliveries wait for the consumer
MaxQueue == 1
\* messages an adapter hands over in one turn of the event loop
MaxBatch == 1
\* calls of secretStorage.store that are in flight at the same time
MaxStoring == 2
\* Math.random() returns random / RandomSteps for random in 0 .. RandomSteps - 1
RandomSteps == 2048

-----------------------------------------------------------------------------
(* Program constants *)

STORAGE_VERSION == 1
TRUST_EXPIRY_DAYS == 30
CHALLENGE_EXPIRY_MS == 2 * 60 * 1000
MAX_ATTEMPTS == 3
BLOCK_DURATION_MS == 5 * 60 * 1000

\* one step of the clock
TickMs == 3 * 60 * 1000

-----------------------------------------------------------------------------
(* JavaScript string operations *)

Digits == {"0", "1", "2", "3", "4", "5", "6", "7", "8", "9"}

LowerChar(c) ==
  CASE c = "A" -> "a" [] c = "B" -> "b" [] c = "C" -> "c" [] c = "D" -> "d"
    [] c = "E" -> "e" [] c = "F" -> "f" [] c = "G" -> "g" [] c = "H" -> "h"
    [] c = "I" -> "i" [] c = "J" -> "j" [] c = "K" -> "k" [] c = "L" -> "l"
    [] c = "M" -> "m" [] c = "N" -> "n" [] c = "O" -> "o" [] c = "P" -> "p"
    [] c = "Q" -> "q" [] c = "R" -> "r" [] c = "S" -> "s" [] c = "T" -> "t"
    [] c = "U" -> "u" [] c = "V" -> "v" [] c = "W" -> "w" [] c = "X" -> "x"
    [] c = "Y" -> "y" [] c = "Z" -> "z" [] OTHER -> c

RECURSIVE toLowerCase(_)
toLowerCase(s) ==
  IF s = "" THEN "" ELSE LowerChar(Head(s)) \o toLowerCase(Tail(s))

IsSpace(c) == c = " "

RECURSIVE trimStart(_)
trimStart(s) ==
  IF s # "" /\ IsSpace(Head(s)) THEN trimStart(Tail(s)) ELSE s

RECURSIVE trimEnd(_)
trimEnd(s) ==
  IF s # "" /\ IsSpace(SubSeq(s, Len(s), Len(s)))
  THEN trimEnd(SubSeq(s, 1, Len(s) - 1)) ELSE s

trim(s) == trimEnd(trimStart(s))

\* s.split(/\s+/): cur is the token being read, s the rest of the string
RECURSIVE splitFrom(_, _)
splitFrom(s, cur) ==
  IF s = "" THEN <<cur>>
  ELSE IF IsSpace(Head(s))
       THEN <<cur>> \o splitFrom(trimStart(s), "")
       ELSE splitFrom(Tail(s), cur \o Head(s))

splitWhitespace(s) == splitFrom(s, "")

startsWith(s, p) == Len(s) >= Len(p) /\ SubSeq(s, 1, Len(p)) = p

includes(s, sub) ==
  \E i \in 1..(Len(s) - Len(sub) + 1) : SubSeq(s, i, i + Len(sub) - 1) = sub

\* s.replace(/^c/, '')
stripLeading(s, c) == IF startsWith(s, c) THEN SubSeq(s, Len(c) + 1, Len(s)) ELSE s

\* a digit test that accepts every string
isNumeric_any(s) == TRUE

\* /^\d+$/.test(s)
isNumeric(s) == s # "" /\ \A i \in 1..Len(s) : SubSeq(s, i, i) \in Digits

\* n.toString() for an integer n >= 0
DigitOf(d) ==
  CASE d = 0 -> "0" [] d = 1 -> "1" [] d = 2 -> "2" [] d = 3 -> "3" [] d = 4 -> "4"
    [] d = 5 -> "5" [] d = 6 -> "6" [] d = 7 -> "7" [] d = 8 -> "8" [] OTHER -> "9"

RECURSIVE numberToString(_)
numberToString(n) ==
  IF n < 10 THEN DigitOf(n) ELSE numberToString(n \div 10) \o DigitOf(n % 10)

\* parts.slice(from).join(' ')
RECURSIVE joinFrom(_, _)
joinFrom(parts, from) ==
  IF from > Len(parts) THEN ""
  ELSE IF from = Len(parts) THEN parts[from]
  ELSE parts[from] \o " " \o joinFrom(parts, from + 1)

\* Math.ceil(x / d) for d > 0
CeilDiv(x, d) == -((-x) \div d)

-----------------------------------------------------------------------------
(* Map helpers: a Map is a function whose DOMAIN is the set of its keys *)

EmptyMap == <<>>
Has(m, k) == k \in DOMAIN m
MapSet(m, k, v) == [x \in DOMAIN m \cup {k} |-> IF x = k THEN v ELSE m[x]]
MapDelete(m, k) == [x \in DOMAIN m \ {k} |-> m[x]]

-----------------------------------------------------------------------------
(* ChallengeAuth.  An operation takes the engine state e (a record of the   *)
(* fields of the class) and returns the state after it, with its result    *)
(* where it has one.                                                       *)

Engine ==
  [authenticatedChats |-> authenticatedChats,
   pendingChallenges  |-> pendingChallenges,
   blockedUsers       |-> blockedUsers,
   trustedUsers       |-> trustedUsers,
   authorizedChannels |-> authorizedChannels,
   seenChannels       |-> seenChannels,
   secretStorage      |-> secretStorage,
   ledger             |-> ledger,
   storing            |-> storing,
   storeFailing       |-> storeFailing]

SetEngine(e) ==
  /\ authenticatedChats' = e.authenticatedChats
  /\ pendingChallenges'  = e.pendingChallenges
  /\ blockedUsers'       = e.blockedUsers
  /\ trustedUsers'       = e.trustedUsers
  /\ authorizedChannels' = e.authorizedChannels
  /\ seenChannels'       = e.seenChannels
  /\ secretStorage'      = e.secretStorage
  /\ ledger'             = e.ledger
  /\ storing'            = e.storing
  /\ storeFailing'       = e.storeFailing

Ret(e, r) == [e |-> e, result |-> r]

\* makeKey with the transport left out of the key
makeKey_noTransport(transport, id) == ":" \o id

makeKey(transport, id) == transport \o ":" \o id
makeUserKey(transport, userId) == transport \o ":" \o userId
makeChannelKey(transport, channelId) == transport \o ":" \o channelId

\* milliseconds of a day: 1000 * 60 * 60 * 24
MsPerDay == 1000 * 60 * 60 * 24

\* new Date(t).toISOString(): the calendar day (counted from the day of t = 0)
\* and the time of day in milliseconds, which the string spells out
toISOString(t) == [day |-> t \div MsPerDay, ms |-> t % MsPerDay]

\* the inactivity test that also drops a user at exactly the limit
daysSinceActiveExceeds_atLimit(iso, t, days) ==
  LET n == toISOString(t)
      wholeDays == IF n.ms >= iso.ms THEN n.day - iso.day ELSE n.day - iso.day - 1
  IN wholeDays >= days

\* (now.getTime() - new Date(iso).getTime()) / (1000 * 60 * 60 * 24) > days at
\* now = t: the difference is taken as whole days and a rest below one day
daysSinceActiveExceeds(iso, t, days) ==
  LET n == toISOString(t)
      wholeDays == IF n.ms >= iso.ms THEN n.day - iso.day ELSE n.day - iso.day - 1
      rest == IF n.ms >= iso.ms THEN n.ms - iso.ms ELSE n.ms - iso.ms + MsPerDay
  IN wholeDays > days \/ (wholeDays = days /\ rest > 0)

\* saveToStorage up to its await: the document is built from the map as it is
\* now and handed to secretStorage.store
saveToStorage(e) ==
  IF ~e.secretStorage THEN e
  ELSE [e EXCEPT !.storing =
          Append(@, [trustedUsers |-> e.trustedUsers, version |-> STORAGE_VERSION])]

\* the oldest call of secretStorage.store settles: the document is written, or
\* the call is rejected and saveToStorage logs the error
storeSettles(e) ==
  IF e.storing = <<>> THEN e
  ELSE [e EXCEPT !.storing = Tail(@),
                 !.ledger = IF e.storeFailing THEN @ ELSE <<Head(e.storing)>>]

\* the caller awaits the calls of secretStorage.store in flight
RECURSIVE storeSettlesAll(_)
storeSettlesAll(e) ==
  IF e.storing = <<>> THEN e ELSE storeSettlesAll(storeSettles(e))

\* loadFromStorage that reads a document of any version
loadFromStorage_anyVersion(e, t) ==
  IF ~e.secretStorage THEN e
  ELSE IF e.storeFailing THEN e
  ELSE IF e.ledger = <<>> THEN e
  ELSE LET stored == e.ledger[1].trustedUsers
           loaded == {key \in DOMAIN stored :
                        ~daysSinceActiveExceeds(stored[key].lastActiveAt, t,
                                                TRUST_EXPIRY_DAYS)}
           e1 == [e EXCEPT
                    !.trustedUsers =
                       [key \in DOMAIN @ \cup loaded |->
                          IF key \in loaded THEN stored[key] ELSE @[key]],
                    !.authenticatedChats =
                       @ \cup {makeKey(stored[key].transport, stored[key].dmChatId) :
                                 key \in loaded}]
       IN IF loaded # DOMAIN stored THEN saveToStorage(e1) ELSE e1

\* loadFromStorage that leaves the chats of the loaded users unmarked
loadFromStorage_noChats(e, t) ==
  IF ~e.secretStorage THEN e
  ELSE IF e.storeFailing THEN e
  ELSE IF e.ledger = <<>> THEN e
  ELSE LET parsed == e.ledger[1] IN
       IF parsed.version # STORAGE_VERSION THEN e
       ELSE LET stored == parsed.trustedUsers
                loaded == {key \in DOMAIN stored :
                             ~daysSinceActiveExceeds(stored[key].lastActiveAt, t,
                                                     TRUST_EXPIRY_DAYS)}
                e1 == [e EXCEPT
                         !.trustedUsers =
                            [key \in DOMAIN @ \cup loaded |->
                               IF key \in loaded THEN stored[key] ELSE @[key]]]
            IN IF loaded # DOMAIN stored THEN saveToStorage(e1) ELSE e1

\* the ledger is <<>> when nothing is stored under STORAGE_KEY; a rejected
\* secretStorage.get is caught and logged
loadFromStorage(e, t) ==
  IF ~e.secretStorage THEN e
  ELSE IF e.storeFailing THEN e
  ELSE IF e.ledger = <<>> THEN e
  ELSE LET parsed == e.ledger[1] IN
       IF parsed.version # STORAGE_VERSION THEN e
       ELSE LET stored == parsed.trustedUsers
                loaded == {key \in DOMAIN stored :
                             ~daysSinceActiveExceeds(stored[key].lastActiveAt, t,
                                                     TRUST_EXPIRY_DAYS)}
                e1 == [e EXCEPT
                         !.trustedUsers =
                            [key \in DOMAIN @ \cup loaded |->
                               IF key \in loaded THEN stored[key] ELSE @[key]],
                         !.authenticatedChats =
                            @ \cup {makeKey(stored[key].transport, stored[key].dmChatId) :
                                      key \in loaded}]
            IN IF loaded # DOMAIN stored THEN saveToStorage(e1) ELSE e1

\* initialize returns when loadFromStorage has, the pruned ledger written
initialize(e, t) ==
  storeSettlesAll(loadFromStorage([e EXCEPT !.secretStorage = TRUE], t))

\* new ChallengeAuth() in a new extension host: the fields as declared, beside
\* the store that e has used
newChallengeAuth(e) ==
  [authenticatedChats |-> {},
   pendingChallenges  |-> EmptyMap,
   blockedUsers       |-> EmptyMap,
   trustedUsers       |-> EmptyMap,
   authorizedChannels |-> EmptyMap,
   seenChannels       |-> <<>>,
   secretStorage      |-> FALSE,
   ledger             |-> e.ledger,
   storing            |-> <<>>,
   storeFailing       |-> e.storeFailing]

isUserTrusted(e, transport, userId) ==
  Has(e.trustedUsers, makeUserKey(transport, userId))

\* trustUser that trusts nobody while the store rejects calls
trustUser_needsStore(e, transport, userId, username, dmChatId, t) ==
  IF e.secretStorage /\ e.storeFailing THEN e
  ELSE saveToStorage(
         [e EXCEPT !.trustedUsers =
            MapSet(@, makeUserKey(transport, userId),
                   [transport |-> transport, userId |-> userId, username |-> username,
                    dmChatId |-> dmChatId, authenticatedAt |-> toISOString(t),
                    lastActiveAt |-> toISOString(t)])])

trustUser(e, transport, userId, username, dmChatId, t) ==
  saveToStorage(
    [e EXCEPT !.trustedUsers =
       MapSet(@, makeUserKey(transport, userId),
              [transport |-> transport, userId |-> userId, username |-> username,
               dmChatId |-> dmChatId, authenticatedAt |-> toISOString(t),
               lastActiveAt |-> toISOString(t)])])

\* no caller in the repository: neither the Router nor a command calls it
touchUser(e, transport, userId, t) ==
  LET key == makeUserKey(transport, userId) IN
  IF Has(e.trustedUsers, key)
  THEN [e EXCEPT !.trustedUsers[key].lastActiveAt = toISOString(t)]
  ELSE e

\* untrustUser that leaves the channels of the user in place
untrustUser_keepChannels(e, transport, userId) ==
  LET key == makeUserKey(transport, userId) IN
  IF Has(e.trustedUsers, key)
  THEN LET user == e.trustedUsers[key]
       IN Ret(saveToStorage(
                [e EXCEPT !.authenticatedChats = @ \ {makeKey(transport, user.dmChatId)},
                          !.trustedUsers = MapDelete(@, key)]),
              TRUE)
  ELSE Ret(e, FALSE)

\* untrustUser that deletes the channels of the transport, whoever authorized them
untrustUser_byTransport(e, transport, userId) ==
  LET key == makeUserKey(transport, userId) IN
  IF Has(e.trustedUsers, key)
  THEN LET user == e.trustedUsers[key]
           kept == {ck \in DOMAIN e.authorizedChannels :
                      e.authorizedChannels[ck].transport # transport}
       IN Ret(saveToStorage(
                [e EXCEPT !.authorizedChannels = [ck \in kept |-> @[ck]],
                          !.authenticatedChats = @ \ {makeKey(transport, user.dmChatId)},
                          !.trustedUsers = MapDelete(@, key)]),
              TRUE)
  ELSE Ret(e, FALSE)

\* untrustUser that writes the ledger before it removes the user
untrustUser_saveFirst(e, transport, userId) ==
  LET key == makeUserKey(transport, userId) IN
  IF Has(e.trustedUsers, key)
  THEN LET user == e.trustedUsers[key]
           kept == {ck \in DOMAIN e.authorizedChannels :
                      e.authorizedChannels[ck].authorizedBy # key}
           e1 == saveToStorage(e)
       IN Ret([e1 EXCEPT !.authorizedChannels = [ck \in kept |-> @[ck]],
                         !.authenticatedChats = @ \ {makeKey(transport, user.dmChatId)},
                         !.trustedUsers = MapDelete(@, key)],
              TRUE)
  ELSE Ret(e, FALSE)

untrustUser(e, transport, userId) ==
  LET key == makeUserKey(transport, userId) IN
  IF Has(e.trustedUsers, key)
  THEN LET user == e.trustedUsers[key]
           kept == {ck \in DOMAIN e.authorizedChannels :
                      e.authorizedChannels[ck].authorizedBy # key}
       IN Ret(saveToStorage(
                [e EXCEPT !.authorizedChannels = [ck \in kept |-> @[ck]],
                          !.authenticatedChats = @ \ {makeKey(transport, user.dmChatId)},
                          !.trustedUsers = MapDelete(@, key)]),
              TRUE)
  ELSE Ret(e, FALSE)

\* the trusted users of one transport
getAllTrustedUsers(e, transport) ==
  {e.trustedUsers[k] : k \in {x \in DOMAIN e.trustedUsers :
                                e.trustedUsers[x].transport = transport}}

\* authorizeChannel that keeps the record a channel already has
authorizeChannel_keepRecord(e, transport, channelId, authorizedByUserId, channelName, mode) ==
  LET userKey == makeUserKey(transport, authorizedByUserId) IN
  IF ~Has(e.trustedUsers, userKey) THEN Ret(e, FALSE)
  ELSE IF Has(e.authorizedChannels, makeChannelKey(transport, channelId))
  THEN Ret(e, TRUE)
  ELSE Ret([e EXCEPT !.authorizedChannels =
              MapSet(@, makeChannelKey(transport, channelId),
                     [transport |-> transport, channelId |-> channelId,
                      channelName |-> channelName, authorizedBy |-> userKey,
                      mode |-> mode])],
           TRUE)

authorizeChannel(e, transport, channelId, authorizedByUserId, channelName, mode) ==
  LET userKey == makeUserKey(transport, authorizedByUserId) IN
  IF ~Has(e.trustedUsers, userKey) THEN Ret(e, FALSE)
  ELSE Ret([e EXCEPT !.authorizedChannels =
              MapSet(@, makeChannelKey(transport, channelId),
                     [transport |-> transport, channelId |-> channelId,
                      channelName |-> channelName, authorizedBy |-> userKey,
                      mode |-> mode])],
           TRUE)

\* revokeChannel that only the user who authorized the channel may call
revokeChannel_ownerOnly(e, transport, channelId, byUserId) ==
  LET channelKey == makeChannelKey(transport, channelId) IN
  IF ~Has(e.authorizedChannels, channelKey) THEN Ret(e, FALSE)
  ELSE IF e.authorizedChannels[channelKey].authorizedBy # makeUserKey(transport, byUserId)
  THEN Ret(e, FALSE)
  ELSE Ret([e EXCEPT !.authorizedChannels = MapDelete(@, channelKey)], TRUE)

revokeChannel(e, transport, channelId, byUserId) ==
  LET channelKey == makeChannelKey(transport, channelId) IN
  IF ~Has(e.authorizedChannels, channelKey) THEN Ret(e, FALSE)
  ELSE IF ~Has(e.trustedUsers, makeUserKey(transport, byUserId)) THEN Ret(e, FALSE)
  ELSE Ret([e EXCEPT !.authorizedChannels = MapDelete(@, channelKey)], TRUE)

isChannelAuthorized(e, transport, channelId) ==
  Has(e.authorizedChannels, makeChannelKey(transport, channelId))

\* seenChannels keeps insertion order: a sequence of entries with distinct keys
SeenIndex(seen, key) == {i \in 1..Len(seen) : seen[i].key = key}

\* channelName = "" stands for undefined (both are falsy)
trackChannel(e, transport, channelId, channelName) ==
  IF channelName = "" THEN e
  ELSE LET key == makeKey(transport, toLowerCase(channelName))
           entry == [key |-> key, channelId |-> channelId, channelName |-> channelName]
       IN [e EXCEPT !.seenChannels =
             IF SeenIndex(@, key) = {} THEN Append(@, entry)
             ELSE [i \in 1..Len(@) |-> IF @[i].key = key THEN entry ELSE @[i]]]

\* the result is <<>> (undefined) or <<entry>>
findChannelByName(e, transport, channelName) ==
  LET seen == e.seenChannels
      exact == SeenIndex(seen, makeKey(transport, toLowerCase(channelName)))
      partial == {i \in 1..Len(seen) :
                    /\ startsWith(seen[i].key, transport \o ":")
                    /\ includes(toLowerCase(seen[i].channelName),
                                toLowerCase(channelName))}
      first(S) == CHOOSE i \in S : \A j \in S : i <= j
  IN IF exact # {} THEN <<seen[first(exact)]>>
     ELSE IF partial # {} THEN <<seen[first(partial)]>>
     ELSE <<>>

isAuthenticated(e, transport, chatId) ==
  makeKey(transport, chatId) \in e.authenticatedChats

Allowed == [allowed |-> TRUE, reason |-> ""]
Denied(reason) == [allowed |-> FALSE, reason |-> reason]

\* canRespondTo that admits a direct message by the chat alone
canRespondTo_chatOnly(e, msg) ==
  IF msg.isDM
  THEN IF isAuthenticated(e, msg.transport, msg.chatId)
       THEN Ret(e, Allowed)
       ELSE Ret(e, Denied("not-dm-authed"))
  ELSE LET channelKey == makeChannelKey(msg.transport, msg.chatId) IN
       IF ~Has(e.authorizedChannels, channelKey)
       THEN Ret(e, Denied("channel-not-authorized"))
       ELSE LET mode == e.authorizedChannels[channelKey].mode
                userTrusted == isUserTrusted(e, msg.transport, msg.userId)
            IN CASE mode = "all" -> Ret(e, Allowed)
                 [] mode = "trusted-only" ->
                      IF userTrusted THEN Ret(e, Allowed)
                      ELSE Ret(e, Denied("not-trusted-in-channel"))
                 [] OTHER ->
                      IF userTrusted \/ msg.mentionsBot THEN Ret(e, Allowed)
                      ELSE Ret(e, Denied("no-mention"))

\* the result with the engine afterwards (canRespondTo only reads)
canRespondTo(e, msg) ==
  IF msg.isDM
  THEN IF isAuthenticated(e, msg.transport, msg.chatId)
          \/ isUserTrusted(e, msg.transport, msg.userId)
       THEN Ret(e, Allowed)
       ELSE Ret(e, Denied("not-dm-authed"))
  ELSE LET channelKey == makeChannelKey(msg.transport, msg.chatId) IN
       IF ~Has(e.authorizedChannels, channelKey)
       THEN Ret(e, Denied("channel-not-authorized"))
       ELSE LET mode == e.authorizedChannels[channelKey].mode
                userTrusted == isUserTrusted(e, msg.transport, msg.userId)
            IN CASE mode = "all" -> Ret(e, Allowed)
                 [] mode = "trusted-only" ->
                      IF userTrusted THEN Ret(e, Allowed)
                      ELSE Ret(e, Denied("not-trusted-in-channel"))
                 [] OTHER ->
                      IF userTrusted \/ msg.mentionsBot THEN Ret(e, Allowed)
                      ELSE Ret(e, Denied("no-mention"))

\* isBlocked that ends the lockout one millisecond early
isBlocked_early(e, transport, chatId, t) ==
  LET key == makeKey(transport, chatId) IN
  IF ~Has(e.blockedUsers, key) THEN Ret(e, FALSE)
  ELSE IF t >= e.blockedUsers[key].until
       THEN Ret([e EXCEPT !.blockedUsers = MapDelete(@, key)], FALSE)
       ELSE Ret(e, TRUE)

isBlocked(e, transport, chatId, t) ==
  LET key == makeKey(transport, chatId) IN
  IF ~Has(e.blockedUsers, key) THEN Ret(e, FALSE)
  ELSE IF t > e.blockedUsers[key].until
       THEN Ret([e EXCEPT !.blockedUsers = MapDelete(@, key)], FALSE)
       ELSE Ret(e, TRUE)

getBlockTimeRemaining(e, transport, chatId, t) ==
  LET key == makeKey(transport, chatId) IN
  IF ~Has(e.blockedUsers, key) THEN 0
  ELSE CeilDiv(e.blockedUsers[key].until - t, 60 * 1000)

\* hasPendingChallenge that sees no challenge
hasPendingChallenge_none(e, transport, chatId, t) == Ret(e, FALSE)

\* hasPendingChallenge that never lets a challenge expire
hasPendingChallenge_noExpiry(e, transport, chatId, t) ==
  Ret(e, Has(e.pendingChallenges, makeKey(transport, chatId)))

hasPendingChallenge(e, transport, chatId, t) ==
  LET key == makeKey(transport, chatId) IN
  IF ~Has(e.pendingChallenges, key) THEN Ret(e, FALSE)
  ELSE IF t > e.pendingChallenges[key].expiresAt
       THEN Ret([e EXCEPT !.pendingChallenges = MapDelete(@, key)], FALSE)
       ELSE Ret(e, TRUE)

\* generateCode that scales the random number by 1000000 and adds nothing
generateCode_fromZero(random) ==
  numberToString((random * 1000000) \div RandomSteps)

\* Math.floor(100000 + Math.random() * 900000).toString()
generateCode(random) ==
  numberToString(100000 + (random * 900000) \div RandomSteps)

\* createChallenge that leaves a challenge the chat already has
createChallenge_keepExisting(e, transport, chatId, code, t) ==
  IF Has(e.pendingChallenges, makeKey(transport, chatId)) THEN e
  ELSE [e EXCEPT !.pendingChallenges =
          MapSet(@, makeKey(transport, chatId),
                 [key |-> code, expiresAt |-> t + CHALLENGE_EXPIRY_MS, attempts |-> 0])]

\* code is what generateCode() returned
createChallenge(e, transport, chatId, code, t) ==
  [e EXCEPT !.pendingChallenges =
     MapSet(@, makeKey(transport, chatId),
            [key |-> code, expiresAt |-> t + CHALLENGE_EXPIRY_MS, attempts |-> 0])]

\* verifyChallenge that locks out one attempt late
verifyChallenge_offByOne(e, transport, chatId, response, userId, username, isDM, t) ==
  LET key == makeKey(transport, chatId) IN
  IF ~Has(e.pendingChallenges, key) THEN Ret(e, "expired")
  ELSE LET challenge == e.pendingChallenges[key] IN
       IF t > challenge.expiresAt
       THEN Ret([e EXCEPT !.pendingChallenges = MapDelete(@, key)], "expired")
       ELSE IF response = challenge.key
       THEN LET e1 == [e EXCEPT !.pendingChallenges = MapDelete(@, key),
                                !.authenticatedChats = @ \cup {key}]
            IN Ret(IF isDM THEN trustUser(e1, transport, userId, username, chatId, t)
                   ELSE e1,
                   "success")
       ELSE LET attempts == challenge.attempts + 1
                remaining == MAX_ATTEMPTS - attempts
            IN IF remaining < 0
               THEN Ret([e EXCEPT !.pendingChallenges = MapDelete(@, key),
                                  !.blockedUsers =
                                     MapSet(@, key, [until |-> t + BLOCK_DURATION_MS])],
                        "blocked")
               ELSE Ret([e EXCEPT !.pendingChallenges[key].attempts = attempts],
                        "wrong")

\* verifyChallenge that keeps the challenge when it locks the chat out
verifyChallenge_lockKeepsChallenge(e, transport, chatId, response, userId, username, isDM, t) ==
  LET key == makeKey(transport, chatId) IN
  IF ~Has(e.pendingChallenges, key) THEN Ret(e, "expired")
  ELSE LET challenge == e.pendingChallenges[key] IN
       IF t > challenge.expiresAt
       THEN Ret([e EXCEPT !.pendingChallenges = MapDelete(@, key)], "expired")
       ELSE IF response = challenge.key
       THEN LET e1 == [e EXCEPT !.pendingChallenges = MapDelete(@, key),
                                !.authenticatedChats = @ \cup {key}]
            IN Ret(IF isDM THEN trustUser(e1, transport, userId, username, chatId, t)
                   ELSE e1,
                   "success")
       ELSE LET attempts == challenge.attempts + 1
                remaining == MAX_ATTEMPTS - attempts
            IN IF remaining <= 0
               THEN Ret([e EXCEPT !.pendingChallenges[key].attempts = attempts,
                                  !.blockedUsers =
                                     MapSet(@, key, [until |-> t + BLOCK_DURATION_MS])],
                        "blocked")
               ELSE Ret([e EXCEPT !.pendingChallenges[key].attempts = attempts],
                        "wrong")

\* verifyChallenge that keeps the challenge it has accepted
verifyChallenge_keepChallenge(e, transport, chatId, response, userId, username, isDM, t) ==
  LET key == makeKey(transport, chatId) IN
  IF ~Has(e.pendingChallenges, key) THEN Ret(e, "expired")
  ELSE LET challenge == e.pendingChallenges[key] IN
       IF t > challenge.expiresAt
       THEN Ret([e EXCEPT !.pendingChallenges = MapDelete(@, key)], "expired")
       ELSE IF response = challenge.key
       THEN LET e1 == [e EXCEPT !.authenticatedChats = @ \cup {key}]
            IN Ret(IF isDM THEN trustUser(e1, transport, userId, username, chatId, t)
                   ELSE e1,
                   "success")
       ELSE LET attempts == challenge.attempts + 1
                remaining == MAX_ATTEMPTS - attempts
            IN IF remaining <= 0
               THEN Ret([e EXCEPT !.pendingChallenges = MapDelete(@, key),
                                  !.blockedUsers =
                                     MapSet(@, key, [until |-> t + BLOCK_DURATION_MS])],
                        "blocked")
               ELSE Ret([e EXCEPT !.pendingChallenges[key].attempts = attempts],
                        "wrong")

\* verifyChallenge that trusts the user whatever isDM says
verifyChallenge_trustsAlways(e, transport, chatId, response, userId, username, isDM, t) ==
  LET key == makeKey(transport, chatId) IN
  IF ~Has(e.pendingChallenges, key) THEN Ret(e, "expired")
  ELSE LET challenge == e.pendingChallenges[key] IN
       IF t > challenge.expiresAt
       THEN Ret([e EXCEPT !.pendingChallenges = MapDelete(@, key)], "expired")
       ELSE IF response = challenge.key
       THEN LET e1 == [e EXCEPT !.pendingChallenges = MapDelete(@, key),
                                !.authenticatedChats = @ \cup {key}]
            IN Ret(trustUser(e1, transport, userId, username, chatId, t), "success")
       ELSE LET attempts == challenge.attempts + 1
                remaining == MAX_ATTEMPTS - attempts
            IN IF remaining <= 0
               THEN Ret([e EXCEPT !.pendingChallenges = MapDelete(@, key),
                                  !.blockedUsers =
                                     MapSet(@, key, [until |-> t + BLOCK_DURATION_MS])],
                        "blocked")
               ELSE Ret([e EXCEPT !.pendingChallenges[key].attempts = attempts],
                        "wrong")

verifyChallenge(e, transport, chatId, response, userId, username, isDM, t) ==
  LET key == makeKey(transport, chatId) IN
  IF ~Has(e.pendingChallenges, key) THEN Ret(e, "expired")
  ELSE LET challenge == e.pendingChallenges[key] IN
       IF t > challenge.expiresAt
       THEN Ret([e EXCEPT !.pendingChallenges = MapDelete(@, key)], "expired")
       ELSE IF response = challenge.key
       THEN LET e1 == [e EXCEPT !.pendingChallenges = MapDelete(@, key),
                                !.authenticatedChats = @ \cup {key}]
            IN Ret(IF isDM THEN trustUser(e1, transport, userId, username, chatId, t)
                   ELSE e1,
                   "success")
       ELSE LET attempts == challenge.attempts + 1
                remaining == MAX_ATTEMPTS - attempts
            IN IF remaining <= 0
               THEN Ret([e EXCEPT !.pendingChallenges = MapDelete(@, key),
                                  !.blockedUsers =
                                     MapSet(@, key, [until |-> t + BLOCK_DURATION_MS])],
                        "blocked")
               ELSE Ret([e EXCEPT !.pendingChallenges[key].attempts = attempts],
                        "wrong")

\* getAttemptsRemaining that grants every attempt to a chat without challenge
getAttemptsRemaining_full(e, transport, chatId) ==
  LET key == makeKey(transport, chatId) IN
  IF ~Has(e.pendingChallenges, key) THEN MAX_ATTEMPTS
  ELSE MAX_ATTEMPTS - e.pendingChallenges[key].attempts

getAttemptsRemaining(e, transport, chatId) ==
  LET key == makeKey(transport, chatId) IN
  IF ~Has(e.pendingChallenges, key) THEN 0
  ELSE MAX_ATTEMPTS - e.pendingChallenges[key].attempts

\* clearOnConnect that forgets the authenticated chats too
clearOnConnect_all(e) ==
  [e EXCEPT !.blockedUsers = EmptyMap, !.pendingChallenges = EmptyMap,
            !.authenticatedChats = {}]

clearOnConnect(e) ==
  [e EXCEPT !.blockedUsers = EmptyMap, !.pendingChallenges = EmptyMap]

-----------------------------------------------------------------------------
(* Messages.  An ExternalMessage without its id and timestamp, which the   *)
(* Router never reads.  channelName = "" stands for undefined.             *)

Msg(transport, chatId, userId, username, content, isDM, mentionsBot, channelName) ==
  [transport |-> transport, chatId |-> chatId, userId |-> userId,
   username |-> username, content |-> content, isDM |-> isDM,
   mentionsBot |-> mentionsBot, channelName |-> channelName]

\* a reply the Router sends with transport.sendMessage(chatId, text)
Reply(chatId, text, n) == [chatId |-> chatId, text |-> text, n |-> n]
NoReply == Reply("", "", 0)

-----------------------------------------------------------------------------
(* TransportManager *)

\* TransportManager.transports: the names of the registered transports
Transports == {"telegram"}

\* the result of handleAdminCommand: the engine afterwards, whether the text
\* was a command, the reply sent, and the engine call the command made
Cmd(e, handled, reply, call) ==
  [e |-> e, handled |-> handled, reply |-> reply, call |-> call]

\* msg.content.trim().toLowerCase().split(/\s+/)
commandParts(content) == splitWhitespace(toLowerCase(trim(content)))

\* the commands without the check that keeps a user from revoking themselves
adminCommand_noSelfCheck(e, msg) ==
  LET parts == commandParts(msg.content)
      command == parts[1]
  IN
  IF command = "enable" /\ Len(parts) >= 2 THEN
    LET channelRef == stripLeading(parts[2], "#")
        mode == IF Len(parts) >= 3 /\ parts[3] # "" THEN parts[3] ELSE "mentions"
        foundChannel == findChannelByName(e, msg.transport, channelRef)
        found == foundChannel # <<>> /\ foundChannel[1].channelId # ""
        channelId == IF found THEN foundChannel[1].channelId ELSE channelRef
        channelName == IF foundChannel # <<>> /\ foundChannel[1].channelName # ""
                       THEN foundChannel[1].channelName ELSE channelRef
        r == authorizeChannel(e, msg.transport, channelId, msg.userId, channelName, mode)
    IN Cmd(r.e, TRUE,
           Reply(msg.chatId,
                 IF foundChannel # <<>> THEN "channel-enabled"
                 ELSE "channel-enabled-not-seen", 0),
           "authorizeChannel")
  ELSE IF command = "disable" /\ Len(parts) >= 2 THEN
    LET channelRef == stripLeading(joinFrom(parts, 2), "#")
        r == revokeChannel(e, msg.transport, channelRef, msg.userId)
    IN Cmd(r.e, TRUE,
           Reply(msg.chatId,
                 IF r.result THEN "channel-disabled" ELSE "channel-was-not-enabled", 0),
           "revokeChannel")
  ELSE IF command = "channels" \/ command = "list" THEN
    Cmd(e, TRUE,
        Reply(msg.chatId, "channels",
              Cardinality({k \in DOMAIN e.authorizedChannels :
                             e.authorizedChannels[k].transport = msg.transport})),
        "")
  ELSE IF command = "trusted" THEN
    Cmd(e, TRUE,
        Reply(msg.chatId, "trusted-users",
              Cardinality(getAllTrustedUsers(e, msg.transport))),
        "")
  ELSE IF command = "revoke" /\ Len(parts) >= 2 THEN
    LET userRef == stripLeading(parts[2], "@")
        users == getAllTrustedUsers(e, msg.transport)
        \* users.find(...): the universe gives every user one username, so that
        \* at most one trusted user matches
        targets == {u \in users : \/ toLowerCase(u.username) = toLowerCase(userRef)
                                  \/ u.userId = userRef}
    IN IF targets = {}
       THEN Cmd(e, TRUE, Reply(msg.chatId, "user-not-found", 0), "")
       ELSE LET targetUser == CHOOSE u \in targets : TRUE
                r == untrustUser(e, msg.transport, targetUser.userId)
            IN Cmd(r.e, TRUE,
                   Reply(msg.chatId,
                         IF r.result THEN "user-revoked" ELSE "revoke-failed", 0),
                   "untrustUser")
  ELSE IF command = "help" THEN
    Cmd(e, TRUE, Reply(msg.chatId, "help", 0), "")
  ELSE Cmd(e, FALSE, NoReply, "")

\* handleAdminCommand once the sender has passed its two checks
adminCommand(e, msg) ==
  LET parts == commandParts(msg.content)
      command == parts[1]
  IN
  IF command = "enable" /\ Len(parts) >= 2 THEN
    LET channelRef == stripLeading(parts[2], "#")
        mode == IF Len(parts) >= 3 /\ parts[3] # "" THEN parts[3] ELSE "mentions"
        foundChannel == findChannelByName(e, msg.transport, channelRef)
        found == foundChannel # <<>> /\ foundChannel[1].channelId # ""
        channelId == IF found THEN foundChannel[1].channelId ELSE channelRef
        channelName == IF foundChannel # <<>> /\ foundChannel[1].channelName # ""
                       THEN foundChannel[1].channelName ELSE channelRef
        r == authorizeChannel(e, msg.transport, channelId, msg.userId, channelName, mode)
    IN Cmd(r.e, TRUE,
           Reply(msg.chatId,
                 IF foundChannel # <<>> THEN "channel-enabled"
                 ELSE "channel-enabled-not-seen", 0),
           "authorizeChannel")
  ELSE IF command = "disable" /\ Len(parts) >= 2 THEN
    LET channelRef == stripLeading(joinFrom(parts, 2), "#")
        r == revokeChannel(e, msg.transport, channelRef, msg.userId)
    IN Cmd(r.e, TRUE,
           Reply(msg.chatId,
                 IF r.result THEN "channel-disabled" ELSE "channel-was-not-enabled", 0),
           "revokeChannel")
  ELSE IF command = "channels" \/ command = "list" THEN
    Cmd(e, TRUE,
        Reply(msg.chatId, "channels",
              Cardinality({k \in DOMAIN e.authorizedChannels :
                             e.authorizedChannels[k].transport = msg.transport})),
        "")
  ELSE IF command = "trusted" THEN
    Cmd(e, TRUE,
        Reply(msg.chatId, "trusted-users",
              Cardinality(getAllTrustedUsers(e, msg.transport))),
        "")
  ELSE IF command = "revoke" /\ Len(parts) >= 2 THEN
    LET userRef == stripLeading(parts[2], "@")
        users == getAllTrustedUsers(e, msg.transport)
        \* users.find(...): the universe gives every user one username, so that
        \* at most one trusted user matches
        targets == {u \in users : \/ toLowerCase(u.username) = toLowerCase(userRef)
                                  \/ u.userId = userRef}
    IN IF targets = {}
       THEN Cmd(e, TRUE, Reply(msg.chatId, "user-not-found", 0), "")
       ELSE LET targetUser == CHOOSE u \in targets : TRUE IN
            IF targetUser.userId = msg.userId
            THEN Cmd(e, TRUE, Reply(msg.chatId, "cannot-revoke-own-trust", 0), "")
            ELSE LET r == untrustUser(e, msg.transport, targetUser.userId) IN
                 Cmd(r.e, TRUE,
                     Reply(msg.chatId,
                           IF r.result THEN "user-revoked" ELSE "revoke-failed", 0),
                     "untrustUser")
  ELSE IF command = "help" THEN
    Cmd(e, TRUE, Reply(msg.chatId, "help", 0), "")
  ELSE Cmd(e, FALSE, NoReply, "")

\* handleAdminCommand without the check of the sender's trust
handleAdminCommand_noTrustCheck(e, msg) ==
  IF ~msg.isDM THEN Cmd(e, FALSE, NoReply, "")
  ELSE adminCommand(e, msg)

handleAdminCommand(e, msg) ==
  IF ~msg.isDM THEN Cmd(e, FALSE, NoReply, "")
  ELSE IF ~isUserTrusted(e, msg.transport, msg.userId) THEN Cmd(e, FALSE, NoReply, "")
  ELSE adminCommand(e, msg)

\* What handleMessage does up to its first await that matters:
\*   outcome  the branch taken
\*   reply    the reply it sends
\*   deliver  "now": hand to the consumer in this step (group message);
\*            "later": after the await of handleAdminCommand (direct message)
\*   report   the wrong-code reply is still to be composed, after the await of
\*            verifyChallenge
Handled(e, outcome, reply, deliver, report, call) ==
  [e |-> e, outcome |-> outcome, reply |-> reply, deliver |-> deliver,
   report |-> report, call |-> call]

handleMessage(e0, msg, code, t) ==
  IF msg.transport \notin Transports
  THEN Handled(e0, "no-transport", NoReply, "none", FALSE, "")
  ELSE
  LET username == IF msg.username # "" THEN msg.username ELSE msg.chatId
      b == isBlocked(e0, msg.transport, msg.chatId, t)
  IN
  IF b.result
  THEN Handled(b.e, "blocked",
               Reply(msg.chatId, "too-many-attempts",
                     getBlockTimeRemaining(b.e, msg.transport, msg.chatId, t)),
               "none", FALSE, "")
  ELSE
  LET e == b.e IN
  IF msg.isDM /\ isAuthenticated(e, msg.transport, msg.chatId)
  THEN LET c == handleAdminCommand(e, msg) IN
       IF c.handled THEN Handled(c.e, "command", c.reply, "none", FALSE, c.call)
       ELSE Handled(c.e, "forward", NoReply, "later", FALSE, "")
  ELSE IF ~msg.isDM
  THEN LET e1 == trackChannel(e, msg.transport, msg.chatId, msg.channelName)
           r == canRespondTo(e1, msg)
           permission == r.result
       IN IF ~permission.allowed
          THEN Handled(r.e, "ignored:" \o permission.reason, NoReply, "none", FALSE, "")
          ELSE Handled(r.e, "forward", NoReply, "now", FALSE, "")
  ELSE
  LET p == hasPendingChallenge(e, msg.transport, msg.chatId, t)
      input == trim(msg.content)
  IN
  IF p.result
  THEN IF ~isNumeric(input)
       THEN Handled(p.e, "ignored:not-numeric", NoReply, "none", FALSE, "")
       ELSE IF Len(input) = 5 \/ Len(input) = 7
       THEN Handled(p.e, "reminder", Reply(msg.chatId, "exactly-6-digits", 0),
                    "none", FALSE, "")
       ELSE IF Len(input) # 6
       THEN Handled(p.e, "ignored:length", NoReply, "none", FALSE, "")
       ELSE LET v == verifyChallenge(p.e, msg.transport, msg.chatId, input,
                                     msg.userId, username, msg.isDM, t)
            IN CASE v.result = "success" ->
                      Handled(v.e, "success", Reply(msg.chatId, "authenticated", 0),
                              "none", FALSE, "verifyChallenge")
                 [] v.result = "expired" ->
                      Handled(v.e, "expired", Reply(msg.chatId, "challenge-expired", 0),
                              "none", FALSE, "verifyChallenge")
                 [] v.result = "blocked" ->
                      Handled(v.e, "locked", Reply(msg.chatId, "blocked-5-minutes", 0),
                              "none", FALSE, "verifyChallenge")
                 [] OTHER ->
                      Handled(v.e, "wrong", NoReply, "none", TRUE, "verifyChallenge")
  ELSE Handled(createChallenge(p.e, msg.transport, msg.chatId, code, t),
               "challenge", Reply(msg.chatId, "authentication-required", 0),
               "none", FALSE, "createChallenge")

\* the queue and the waiter of the TransportManager; resolved is what the
\* waitingResolver has been called with in the turn
Router ==
  [messageQueue |-> messageQueue, waitingResolver |-> waitingResolver,
   resolved |-> <<>>]

\* deliver that appends to the queue whether or not a waiter is registered
deliver_queueOnly(r, msg) == [r EXCEPT !.messageQueue = Append(@, msg)]

\* if (this.waitingResolver) { resolve(msg); waitingResolver = null } else push(msg)
deliver(r, msg) ==
  IF r.waitingResolver
  THEN [r EXCEPT !.waitingResolver = FALSE, !.resolved = Append(@, msg)]
  ELSE [r EXCEPT !.messageQueue = Append(@, msg)]

\* the element of a one-element set: The({F(x) : x \in {v}}) is F(v), with v
\* evaluated once
The(S) == CHOOSE x \in S : TRUE

\* One turn of the event loop.  The adapter passes the messages of a batch to
\* handleMessage one after the other; each call runs to its first await, where
\* a group message has already been handed over; the calls suspended at an
\* await continue afterwards, in the order in which they were started.
\* An element of a batch is a message with the code generateCode() would draw.
Turn(e, r, suspended, replies) ==
  [e |-> e, r |-> r, suspended |-> suspended, replies |-> replies]

\* the turn of one call, from the result h of handleMessage up to its await
startOne(h, r, msg) ==
  Turn(h.e, IF h.deliver = "now" THEN deliver(r, msg) ELSE r,
       IF h.deliver = "later" THEN <<[kind |-> "deliver", msg |-> msg]>>
       ELSE IF h.report THEN <<[kind |-> "report", msg |-> msg]>>
       ELSE <<>>,
       IF h.reply # NoReply THEN <<h.reply>> ELSE <<>>)

RECURSIVE startAll(_, _, _, _)
startAll(e, r, batch, t) ==
  IF batch = <<>> THEN Turn(e, r, <<>>, <<>>)
  ELSE The({The({Turn(rest.e, rest.r, first.suspended \o rest.suspended,
                      first.replies \o rest.replies) :
                   rest \in {startAll(first.e, first.r, Tail(batch), t)}}) :
              first \in {startOne(h, r, Head(batch).msg) :
                           h \in {handleMessage(e, Head(batch).msg,
                                                Head(batch).code, t)}}})

RECURSIVE resumeAll(_, _, _, _)
resumeAll(e, r, suspended, replies) ==
  IF suspended = <<>> THEN Turn(e, r, <<>>, replies)
  ELSE LET k == Head(suspended) IN
       IF k.kind = "deliver"
       THEN resumeAll(e, deliver(r, k.msg), Tail(suspended), replies)
       ELSE resumeAll(e, r, Tail(suspended),
                      Append(replies,
                             Reply(k.msg.chatId, "incorrect-code",
                                   getAttemptsRemaining(e, k.msg.transport,
                                                        k.msg.chatId))))

onMessages(e, r, batch, t) ==
  The({resumeAll(started.e, started.r, started.suspended, started.replies) :
         started \in {startAll(e, r, batch, t)}})

\* waitForMessage that returns the head of the queue and leaves it there
waitForMessage_keepHead(r) ==
  IF r.messageQueue # <<>>
  THEN [r |-> r, returned |-> <<Head(r.messageQueue)>>]
  ELSE [r |-> [r EXCEPT !.waitingResolver = TRUE], returned |-> <<>>]

\* waitForMessage: the message returned (<<>> when the call waits) and the
\* router afterwards
waitForMessage(r) ==
  IF r.messageQueue # <<>>
  THEN [r |-> [r EXCEPT !.messageQueue = Tail(@)], returned |-> <<Head(r.messageQueue)>>]
  ELSE [r |-> [r EXCEPT !.waitingResolver = TRUE], returned |-> <<>>]

\* the cancellation listener that leaves the waiter registered
cancelWait_keepWaiter(r) == [r |-> r, outcome |-> "Cancelled"]

\* the listener of token.onCancellationRequested: the router afterwards and
\* the Error the pending call is rejected with
cancelWait(r) ==
  [r |-> [r EXCEPT !.waitingResolver = FALSE], outcome |-> "Cancelled"]

-----------------------------------------------------------------------------
(* The messages the adapters deliver *)

\* what generateCode() returns
Codes == {"123456"}

\* a sender: the chat written to and the user writing
From(transport, chatId, userId, username) ==
  [transport |-> transport, chatId |-> chatId, userId |-> userId, username |-> username]

\* c1 is a chat both users write to, c2 a chat of u2 alone
Senders ==
  {From("telegram", "c1", "u1", "alice"), From("telegram", "c1", "u2", "bob"),
   From("telegram", "c2", "u2", "bob")}
GroupSenders == {f \in Senders : f.chatId = "c1"}

\* the name a group chat is known by ("" for none)
ChannelNameOf(chatId) == IF chatId = "c1" THEN "General" ELSE ""

Commands == {"enable c1", "disable c1", "revoke u1", "revoke @Bob"}
DirectContents == {"hello", "000000"} \cup Codes \cup Commands
GroupContents == {"hello", "enable c1"}

DirectMessages ==
  {Msg(f.transport, f.chatId, f.userId, f.username, c, TRUE, FALSE, "") :
     f \in Senders, c \in DirectContents}
GroupMessages ==
  {Msg(f.transport, f.chatId, f.userId, f.username, c, FALSE, m,
       ChannelNameOf(f.chatId)) :
     f \in GroupSenders, c \in GroupContents, m \in BOOLEAN}
Messages == DirectMessages \cup GroupMessages

Inputs == {[msg |-> m, code |-> c] : m \in Messages, c \in Codes}
Batches == UNION {[1..n -> Inputs] : n \in 1..MaxBatch}

-----------------------------------------------------------------------------
(* Router specification: the adapters call handleMessage, the consumer     *)
(* tool calls waitForMessage, the clock advances.                          *)

Init ==
  /\ now = 0
  /\ authenticatedChats = {}
  /\ pendingChallenges = EmptyMap
  /\ blockedUsers = EmptyMap
  /\ trustedUsers = EmptyMap
  /\ authorizedChannels = EmptyMap
  /\ seenChannels = <<>>
  /\ secretStorage = TRUE
  /\ ledger = <<>>
  /\ storing = <<>>
  /\ storeFailing = FALSE
  /\ messageQueue = <<>>
  /\ waitingResolver = FALSE
  /\ calls = <<>> /\ resolverOf = 0 /\ accepted = <<>>
  /\ revoked = {}

\* the calls of the consumer are followed in the consumer specification only
SetRouter(r) ==
  /\ messageQueue' = r.messageQueue
  /\ waitingResolver' = r.waitingResolver
  /\ UNCHANGED consumerVars

\* the history of revocations across engine steps from e to e1
RevokedAfter(e, e1) ==
  (revoked \cup (DOMAIN e.trustedUsers \ DOMAIN e1.trustedUsers))
    \ {k \in DOMAIN e1.trustedUsers :
         ~Has(e.trustedUsers, k) \/ e.trustedUsers[k] # e1.trustedUsers[k]}

\* an adapter event: the messages of the batch go through handleMessage; the
\* ledger written for them is in the store before the next event
HandleMessage(batch) ==
  \E d \in {onMessages(Engine, Router, batch, now)} :
    /\ Len(d.r.messageQueue) <= MaxQueue
    /\ SetEngine(storeSettlesAll(d.e))
    /\ SetRouter(d.r)
    /\ revoked' = RevokedAfter(Engine, d.e)
    /\ UNCHANGED now

\* the consumer tool asks for the next message
WaitForMessage ==
  /\ ~waitingResolver
  /\ \E w \in {waitForMessage(Router)} : SetRouter(w.r)
  /\ UNCHANGED <<now, engineVars, revoked>>

\* the cancellation listener of a waiting call runs
CancelWait ==
  /\ waitingResolver
  /\ \E c \in {cancelWait(Router)} : SetRouter(c.r)
  /\ UNCHANGED <<now, engineVars, revoked>>

ClearOnConnect ==
  /\ \E e \in {clearOnConnect(Engine)} : SetEngine(e)
  /\ UNCHANGED <<now, routerVars, revoked>>

Tick ==
  /\ now < MaxTime * TickMs
  /\ now' = now + TickMs
  /\ UNCHANGED <<engineVars, routerVars, revoked>>

Next ==
  \/ \E batch \in Batches : HandleMessage(batch)
  \/ WaitForMessage
  \/ CancelWait
  \/ ClearOnConnect
  \/ Tick

Spec == Init /\ [][Next]_vars

-----------------------------------------------------------------------------
(* Engine specification: a caller uses the ChallengeAuth API directly, as  *)
(* the unit tests do (no SecretStorage attached), on two transports that   *)
(* use the same ids.                                                       *)

EngineTransports == {"telegram", "whatsapp"}
Modes == {"all", "mentions", "trusted-only"}
Responses == Codes \cup {"000000"}

\* the chats challenges are created for, and who answers them
Callers ==
  {From("telegram", "c1", "u1", "alice"), From("whatsapp", "c1", "u1", "alice")}
\* the users trustUser and untrustUser are called for, with their direct chat
Users == Callers \cup {From("telegram", "c2", "u2", "bob")}

Channel(transport, channelId, userId, channelName, mode) ==
  [transport |-> transport, channelId |-> channelId, userId |-> userId,
   channelName |-> channelName, mode |-> mode]

ChannelCalls ==
  {Channel("telegram", "g1", "u1", "General", "all"),
   Channel("telegram", "g1", "u1", "General", "trusted-only"),
   Channel("telegram", "g2", "u2", "", "mentions"),
   Channel("whatsapp", "g1", "u1", "", "mentions")}

\* the messages canRespondTo is asked about
Queries ==
  {Msg(tr, c, u, "", "hello", c = "c1", m, "") :
     tr \in EngineTransports, c \in {"c1", "g1", "g2"}, u \in {"u1", "u2"},
     m \in BOOLEAN}

InitEngine ==
  /\ now = 0
  /\ authenticatedChats = {}
  /\ pendingChallenges = EmptyMap
  /\ blockedUsers = EmptyMap
  /\ trustedUsers = EmptyMap
  /\ authorizedChannels = EmptyMap
  /\ seenChannels = <<>>
  /\ secretStorage = FALSE
  /\ ledger = <<>>
  /\ storing = <<>>
  /\ storeFailing = FALSE
  /\ messageQueue = <<>>
  /\ waitingResolver = FALSE
  /\ calls = <<>> /\ resolverOf = 0 /\ accepted = <<>>
  /\ revoked = {}

\* an engine call that leads from Engine to e
EngineStep(e) ==
  /\ SetEngine(e)
  /\ revoked' = RevokedAfter(Engine, e)
  /\ UNCHANGED <<now, routerVars>>

\* For each operation: the engine states its calls for one transport lead to,
\* and the action of making one of these calls.
On(S, transport) == {x \in S : x.transport = transport}

CreateChallengeResults(transport) ==
  {createChallenge(Engine, f.transport, f.chatId, code, now) :
     f \in On(Callers, transport), code \in Codes}

CreateChallenge(transport) ==
  \E e \in CreateChallengeResults(transport) : EngineStep(e)

VerifyChallengeResults(transport) ==
  {verifyChallenge(Engine, f.transport, f.chatId, response, f.userId, f.username,
                   isDM, now).e :
     f \in On(Callers, transport), response \in Responses, isDM \in BOOLEAN}

VerifyChallenge(transport) ==
  \E e \in VerifyChallengeResults(transport) : EngineStep(e)

TrustUserResults(transport) ==
  {trustUser(Engine, f.transport, f.userId, f.username, f.chatId, now) :
     f \in On(Users, transport)}

TrustUser(transport) ==
  \E e \in TrustUserResults(transport) : EngineStep(e)

UntrustUserResults(transport) ==
  {untrustUser(Engine, f.transport, f.userId).e : f \in On(Users, transport)}

UntrustUser(transport) ==
  \E e \in UntrustUserResults(transport) : EngineStep(e)

AuthorizeChannelResults(transport) ==
  {authorizeChannel(Engine, c.transport, c.channelId, c.userId, c.channelName,
                    c.mode).e : c \in On(ChannelCalls, transport)}

AuthorizeChannel(transport) ==
  \E e \in AuthorizeChannelResults(transport) : EngineStep(e)

RevokeChannelResults(transport) ==
  {revokeChannel(Engine, c.transport, c.channelId, c.userId).e :
     c \in On(ChannelCalls, transport)}

RevokeChannel(transport) ==
  \E e \in RevokeChannelResults(transport) : EngineStep(e)

CanRespondToResults(transport) ==
  {canRespondTo(Engine, msg).e : msg \in On(Queries, transport)}

CanRespondTo(transport) ==
  \E e \in CanRespondToResults(transport) : EngineStep(e)

IsBlockedResults(transport) ==
  {isBlocked(Engine, f.transport, f.chatId, now).e : f \in On(Callers, transport)}

IsBlocked(transport) ==
  \E e \in IsBlockedResults(transport) : EngineStep(e)

HasPendingChallengeResults(transport) ==
  {hasPendingChallenge(Engine, f.transport, f.chatId, now).e :
     f \in On(Callers, transport)}

HasPendingChallenge(transport) ==
  \E e \in HasPendingChallengeResults(transport) : EngineStep(e)

NextEngine ==
  \/ \E transport \in EngineTransports : CreateChallenge(transport)
  \/ \E transport \in EngineTransports : VerifyChallenge(transport)
  \/ \E transport \in EngineTransports : TrustUser(transport)
  \/ \E transport \in EngineTransports : UntrustUser(transport)
  \/ \E transport \in EngineTransports : AuthorizeChannel(transport)
  \/ \E transport \in EngineTransports : RevokeChannel(transport)
  \/ \E transport \in EngineTransports : CanRespondTo(transport)
  \/ \E transport \in EngineTransports : IsBlocked(transport)
  \/ \E transport \in EngineTransports : HasPendingChallenge(transport)
  \/ ClearOnConnect

SpecEngine == InitEngine /\ [][NextEngine]_vars

-----------------------------------------------------------------------------
(* Store specification: the extension is activated with a ledger that       *)
(* earlier sessions have left in SecretStorage, trusts and revokes users,   *)
(* one call after the other, and is restarted.  SecretStorage can start    *)
(* and stop rejecting calls.                                                *)

\* the lastActiveAt of stored users: around TRUST_EXPIRY_DAYS before the day
\* of t = 0
LastActives ==
  {[day |-> -(TRUST_EXPIRY_DAYS + 1), ms |-> 0],
   [day |-> -TRUST_EXPIRY_DAYS, ms |-> 0],
   [day |-> -TRUST_EXPIRY_DAYS, ms |-> TickMs],
   [day |-> -(TRUST_EXPIRY_DAYS - 1), ms |-> 0]}

\* the document saveToStorage has written for users last active at g
StoredDocument(g, version) ==
  [trustedUsers |->
     [key \in {makeUserKey(f.transport, f.userId) : f \in DOMAIN g} |->
        LET f == CHOOSE x \in DOMAIN g : makeUserKey(x.transport, x.userId) = key IN
        [transport |-> f.transport, userId |-> f.userId, username |-> f.username,
         dmChatId |-> f.chatId, authenticatedAt |-> g[f], lastActiveAt |-> g[f]]],
   version |-> version]

\* the storage versions of an earlier and of a later release
OtherVersions == {STORAGE_VERSION - 1, STORAGE_VERSION + 1}

\* what SecretStorage can hold at activation: nothing, a document of this
\* storage version, or a document of another version (with users active a
\* day less than TRUST_EXPIRY_DAYS ago)
StoredLedgers ==
  {<<>>}
  \cup {<<StoredDocument(g, STORAGE_VERSION)>> :
          g \in UNION {[S -> LastActives] : S \in SUBSET Users}}
  \cup {<<StoredDocument([f \in S |-> [day |-> -(TRUST_EXPIRY_DAYS - 1), ms |-> 0]],
                         version)>> :
          S \in SUBSET Users, version \in OtherVersions}

InitStore ==
  /\ now = 0
  /\ authenticatedChats = {}
  /\ pendingChallenges = EmptyMap
  /\ blockedUsers = EmptyMap
  /\ trustedUsers = EmptyMap
  /\ authorizedChannels = EmptyMap
  /\ seenChannels = <<>>
  /\ secretStorage = FALSE
  /\ ledger \in StoredLedgers
  /\ storing = <<>>
  /\ storeFailing = FALSE
  /\ messageQueue = <<>>
  /\ waitingResolver = FALSE
  /\ calls = <<>> /\ resolverOf = 0 /\ accepted = <<>>
  /\ revoked = {}

\* an engine call that leads from Engine to e (the history of revocations is
\* kept for the Router only)
StoreStep(e) ==
  /\ SetEngine(e)
  /\ UNCHANGED <<now, routerVars, revoked>>

\* activate: await challengeAuth.initialize(context.secrets)
Initialize ==
  /\ ~secretStorage
  /\ \E e \in {initialize(Engine, now)} : StoreStep(e)

\* await trustUser(...)
StoreTrustUser ==
  /\ secretStorage
  /\ \E transport \in EngineTransports :
       \E e \in TrustUserResults(transport) : StoreStep(storeSettlesAll(e))

\* await untrustUser(...)
StoreUntrustUser ==
  /\ secretStorage
  /\ \E transport \in EngineTransports :
       \E e \in UntrustUserResults(transport) : StoreStep(storeSettlesAll(e))

\* the channels authorized in a session: one of each transport
StoreChannelCalls ==
  {Channel("telegram", "g1", "u1", "General", "all"),
   Channel("whatsapp", "g1", "u1", "", "mentions")}

StoreAuthorizeChannel ==
  /\ secretStorage
  /\ \E c \in StoreChannelCalls :
       StoreStep(authorizeChannel(Engine, c.transport, c.channelId, c.userId,
                                  c.channelName, c.mode).e)

\* SecretStorage starts or stops rejecting calls
StoreHealth ==
  /\ storeFailing' = ~storeFailing
  /\ UNCHANGED <<now, authenticatedChats, pendingChallenges, blockedUsers,
                 trustedUsers, authorizedChannels, seenChannels, secretStorage,
                 ledger, storing, routerVars, revoked>>

\* the extension host restarts, no write of the ledger in flight: a new
\* ChallengeAuth, the stored ledger stays
Restart ==
  /\ secretStorage
  /\ storing = <<>>
  /\ SetEngine(newChallengeAuth(Engine))
  /\ revoked' = {}
  /\ UNCHANGED <<now, routerVars>>

NextStore ==
  \/ Initialize
  \/ StoreTrustUser
  \/ StoreUntrustUser
  \/ StoreAuthorizeChannel
  \/ StoreHealth
  \/ Restart
  \/ Tick

SpecStore == InitStore /\ [][NextStore]_vars

-----------------------------------------------------------------------------
(* Save specification: after an activation that found the store empty,      *)
(* challenges are answered and users are trusted and revoked while earlier  *)
(* writes of the ledger are still in flight.  Each operation runs up to its *)
(* await of secretStorage.store; SecretStorage writes in the order of the   *)
(* calls and can start and stop rejecting them.  The extension can be       *)
(* restarted.  The operations follow one another within one step of the    *)
(* clock.                                                                   *)

\* the operations of a session: activate has returned (secretStorage is set)
SaveCreateChallenge ==
  /\ secretStorage
  /\ \E transport \in EngineTransports : CreateChallenge(transport)

SaveVerifyChallenge ==
  /\ secretStorage
  /\ Len(storing) < MaxStoring
  /\ \E transport \in EngineTransports : VerifyChallenge(transport)

SaveTrustUser ==
  /\ secretStorage
  /\ Len(storing) < MaxStoring
  /\ \E transport \in EngineTransports : TrustUser(transport)

SaveUntrustUser ==
  /\ secretStorage
  /\ Len(storing) < MaxStoring
  /\ \E transport \in EngineTransports : UntrustUser(transport)

\* the await of the oldest secretStorage.store returns
StoreSettles ==
  /\ storing # <<>>
  /\ \E e \in {storeSettles(Engine)} : EngineStep(e)

NextSave ==
  \/ SaveCreateChallenge
  \/ SaveVerifyChallenge
  \/ SaveTrustUser
  \/ SaveUntrustUser
  \/ StoreSettles
  \/ StoreHealth
  \/ Restart
  \/ Initialize

SpecSave == Init /\ [][NextSave]_vars

-----------------------------------------------------------------------------
(* Code specification: challenges are created for a chat, with the code     *)
(* that generateCode makes of the random number drawn, and cleared when    *)
(* the consumer connects.                                                   *)

\* a challenge is created for a chat that has none pending, as the Router does
GenerateChallenge ==
  \E f \in On(Callers, "telegram"), random \in 0..(RandomSteps - 1) :
    \E p \in {hasPendingChallenge(Engine, f.transport, f.chatId, now)} :
      /\ ~p.result
      /\ EngineStep(createChallenge(p.e, f.transport, f.chatId, generateCode(random),
                                    now))

NextCode ==
  \/ GenerateChallenge
  \/ ClearOnConnect

SpecCode == InitEngine /\ [][NextCode]_vars

-----------------------------------------------------------------------------
(* Consumer specification: the chat of a trusted user is authenticated and *)
(* a channel is authorized; messages arrive, each once, and the consumer   *)
(* tool calls waitForMessage, one call after the other, each with its own  *)
(* cancellation token.  A call that has to wait leaves a listener on its   *)
(* token, which runs when the token is cancelled, while the call is        *)
(* pending or after it has completed.                                      *)

\* number of waitForMessage calls followed
MaxCalls == 3

ConsumerContents == {"m1", "m2", "m3"}

\* direct messages of the trusted user, group messages of another user in
\* the authorized channel, and a direct message the Router does not deliver
ConsumerMessages ==
  {Msg("telegram", "c1", "u1", "alice", c, TRUE, FALSE, "") : c \in ConsumerContents}
    \cup {Msg("telegram", "g1", "u2", "bob", c, FALSE, FALSE, "General") :
            c \in ConsumerContents}
    \cup {Msg("telegram", "c2", "u2", "bob", "hello", TRUE, FALSE, "")}

\* the engine after u1 has answered the challenge of chat c1 and enabled the
\* channel g1
ConsumerStart ==
  LET fresh == [authenticatedChats |-> {}, pendingChallenges |-> EmptyMap,
                blockedUsers |-> EmptyMap, trustedUsers |-> EmptyMap,
                authorizedChannels |-> EmptyMap, seenChannels |-> <<>>,
                secretStorage |-> TRUE, ledger |-> <<>>, storing |-> <<>>,
                storeFailing |-> FALSE]
      v == verifyChallenge(createChallenge(fresh, "telegram", "c1", "123456", 0),
                           "telegram", "c1", "123456", "u1", "alice", TRUE, 0)
  IN storeSettlesAll(authorizeChannel(v.e, "telegram", "g1", "u1", "General", "all").e)

InitConsumer ==
  /\ now = 0
  /\ authenticatedChats = ConsumerStart.authenticatedChats
  /\ pendingChallenges = ConsumerStart.pendingChallenges
  /\ blockedUsers = ConsumerStart.blockedUsers
  /\ trustedUsers = ConsumerStart.trustedUsers
  /\ authorizedChannels = ConsumerStart.authorizedChannels
  /\ seenChannels = ConsumerStart.seenChannels
  /\ secretStorage = ConsumerStart.secretStorage
  /\ ledger = ConsumerStart.ledger
  /\ storing = ConsumerStart.storing
  /\ storeFailing = ConsumerStart.storeFailing
  /\ messageQueue = <<>>
  /\ waitingResolver = FALSE
  /\ calls = <<>> /\ resolverOf = 0 /\ accepted = <<>>
  /\ revoked = {}

\* a waitForMessage call: its promise (pending, resolved or rejected), the
\* message it has returned, and whether its listener is on a token that has
\* not been cancelled
Call(state, returned, listening) ==
  [state |-> state, returned |-> returned, listening |-> listening]

\* resolve(msg) of the call c: a promise that is settled stays as it is
resolve(cs, c, msg) ==
  IF c \in 1..Len(cs) /\ cs[c].state = "pending"
  THEN [cs EXCEPT ![c] = Call("resolved", <<msg>>, cs[c].listening)]
  ELSE cs

\* reject(new Error('Cancelled')) of the call c
reject(cs, c) ==
  IF cs[c].state = "pending"
  THEN [cs EXCEPT ![c] = Call("rejected", <<>>, cs[c].listening)]
  ELSE cs

\* an adapter event with a message that has not arrived before
Arrive(batch) ==
  /\ \A i \in 1..Len(batch), j \in 1..Len(accepted) :
       batch[i].msg.content # accepted[j].content
  /\ \E d \in {onMessages(Engine, Router, batch, now)} :
       /\ SetEngine(storeSettlesAll(d.e))
       /\ messageQueue' = d.r.messageQueue
       /\ waitingResolver' = d.r.waitingResolver
       /\ accepted' = accepted \o d.r.resolved
                        \o SubSeq(d.r.messageQueue, Len(messageQueue) + 1,
                                  Len(d.r.messageQueue))
       /\ resolverOf' = IF d.r.waitingResolver THEN resolverOf ELSE 0
       /\ calls' = IF d.r.resolved = <<>> THEN calls
                   ELSE resolve(calls, resolverOf, d.r.resolved[1])
  /\ UNCHANGED <<now, revoked>>

\* the consumer, with no call pending, calls waitForMessage with a new token
ConsumerWait ==
  /\ Len(calls) < MaxCalls
  /\ \A c \in 1..Len(calls) : calls[c].state # "pending"
  /\ \E w \in {waitForMessage(Router)} :
       /\ messageQueue' = w.r.messageQueue
       /\ waitingResolver' = w.r.waitingResolver
       /\ calls' = Append(calls, IF w.returned # <<>>
                                 THEN Call("resolved", w.returned, FALSE)
                                 ELSE Call("pending", <<>>, TRUE))
       /\ resolverOf' = IF w.returned = <<>> THEN Len(calls) + 1 ELSE resolverOf
  /\ UNCHANGED <<now, engineVars, accepted, revoked>>

\* the token of the call c is cancelled: its listener runs
Cancel(c) ==
  /\ calls[c].listening
  /\ \E k \in {cancelWait(Router)} :
       /\ messageQueue' = k.r.messageQueue
       /\ waitingResolver' = k.r.waitingResolver
       /\ resolverOf' = IF k.r.waitingResolver THEN resolverOf ELSE 0
  /\ calls' = [reject(calls, c) EXCEPT ![c].listening = FALSE]
  /\ UNCHANGED <<now, engineVars, accepted, revoked>>

NextConsumer ==
  \/ \E batch \in [1..1 -> {[msg |-> m, code |-> c] :
                              m \in ConsumerMessages, c \in Codes}] : Arrive(batch)
  \/ ConsumerWait
  \/ \E c \in 1..Len(calls) : Cancel(c)

SpecConsumer == InitConsumer /\ [][NextConsumer]_vars

-----------------------------------------------------------------------------
(* Properties.  The operations are applied to the reachable states: a      *)
(* property that quantifies over messages or calls states what the next    *)
(* call would do in the current state.                                     *)

\* C1: canRespondTo answers by its table and changes no engine state.  A
\* direct message is allowed exactly if its chat is authenticated or its
\* sender is trusted, else denied as not-dm-authed.  A group message is
\* denied as channel-not-authorized without a channel record; with one it is
\* allowed in mode all, in mode trusted-only exactly if the sender is trusted
\* (else not-trusted-in-channel), in mode mentions exactly if the sender is
\* trusted or the message mentions the bot (else no-mention).
C1_CanRespondToTable ==
  \A msg \in Queries :
    LET r == canRespondTo(Engine, msg)
        trusted == isUserTrusted(Engine, msg.transport, msg.userId)
        mode == authorizedChannels[makeChannelKey(msg.transport, msg.chatId)].mode
    IN /\ r.e = Engine
       /\ IF msg.isDM
          THEN r.result =
                 IF isAuthenticated(Engine, msg.transport, msg.chatId) \/ trusted
                 THEN Allowed ELSE Denied("not-dm-authed")
          ELSE IF ~isChannelAuthorized(Engine, msg.transport, msg.chatId)
          THEN r.result = Denied("channel-not-authorized")
          ELSE /\ mode \in Modes
               /\ mode = "all" => r.result = Allowed
               /\ mode = "trusted-only" =>
                    r.result = IF trusted THEN Allowed
                               ELSE Denied("not-trusted-in-channel")
               /\ mode = "mentions" =>
                    r.result = IF trusted \/ msg.mentionsBot THEN Allowed
                               ELSE Denied("no-mention")

\* a state in which the table has its denials of both restricted modes, and a
\* direct message is allowed by the trust of its sender alone
C1_Witness ==
  \E m1, m2, m3 \in Queries :
    /\ canRespondTo(Engine, m1).result = Denied("not-trusted-in-channel")
    /\ canRespondTo(Engine, m2).result = Denied("no-mention")
    /\ m3.isDM /\ ~isAuthenticated(Engine, m3.transport, m3.chatId)
    /\ canRespondTo(Engine, m3).result = Allowed

\* the times of the attempts on a challenge created now: at once, and at the
\* last millisecond before it expires
AttemptTimes == {now, now + CHALLENGE_EXPIRY_MS}

\* the results of three wrong answers to a challenge created now, and what the
\* engine does with a fourth call at t4
ThreeWrong(f, code, isDM, t1, t2, t3, after(_, _)) ==
  LET e0 == createChallenge(Engine, f.transport, f.chatId, code, now)
      v1 == verifyChallenge(e0, f.transport, f.chatId, "000000", f.userId,
                            f.username, isDM, t1)
      v2 == verifyChallenge(v1.e, f.transport, f.chatId, "000000", f.userId,
                            f.username, isDM, t2)
      v3 == verifyChallenge(v2.e, f.transport, f.chatId, "000000", f.userId,
                            f.username, isDM, t3)
  IN /\ v1.result = "wrong"
     /\ v2.result = "wrong"
     /\ v3.result = "blocked"
     /\ \A t4 \in {t3, t3 + BLOCK_DURATION_MS} : after(v3.e, t4)

ThreeWrongAlways(f, after(_, _)) ==
  \A code \in Codes, isDM \in BOOLEAN, t1, t2, t3 \in AttemptTimes :
    (t1 <= t2 /\ t2 <= t3) => ThreeWrong(f, code, isDM, t1, t2, t3, after)

\* C2 as claimed: three consecutive wrong answers before the challenge
\* expires return wrong, wrong, blocked, and any further verifyChallenge
\* within 5 minutes returns blocked, whatever the response.
C2_FurtherAttemptsBlocked ==
  \A f \in Callers :
    LET blockedAfter(e, t4) ==
          \A response \in Responses :
            verifyChallenge(e, f.transport, f.chatId, response, f.userId,
                            f.username, TRUE, t4).result = "blocked"
        anything(e, t4) == TRUE
    IN /\ ThreeWrongAlways(f, anything)
       /\ isBlocked(Engine, f.transport, f.chatId, now).result => blockedAfter(Engine, now)

\* C2 as amended: three consecutive wrong answers before the challenge
\* expires return wrong, wrong, blocked; the third deletes the challenge and
\* starts a lockout that isBlocked reports for 5 minutes; a further
\* verifyChallenge with no new createChallenge returns expired, whatever the
\* response, and changes nothing.
C2_ThreeWrongThenLockout ==
  \A f \in Callers :
    LET expiredAfter(e, t4) ==
          /\ ~Has(e.pendingChallenges, makeKey(f.transport, f.chatId))
          /\ isBlocked(e, f.transport, f.chatId, t4).result
          /\ \A response \in Responses :
               verifyChallenge(e, f.transport, f.chatId, response, f.userId,
                               f.username, TRUE, t4) = Ret(e, "expired")
    IN ThreeWrongAlways(f, expiredAfter)

\* a chat which the third wrong answer has locked out
C2_Witness ==
  \E f \in Callers :
    /\ isBlocked(Engine, f.transport, f.chatId, now).result
    /\ ~Has(pendingChallenges, makeKey(f.transport, f.chatId))

\* C3, in every state: the pending code, given up to expiresAt, returns
\* success, deletes the challenge and authenticates the chat; for a chat
\* without a challenge every verifyChallenge returns expired.
C3_State ==
  \A f \in Callers :
    LET key == makeKey(f.transport, f.chatId)
        verify(e, response, isDM, t) ==
          verifyChallenge(e, f.transport, f.chatId, response, f.userId, f.username,
                          isDM, t)
    IN IF Has(pendingChallenges, key)
       THEN \A isDM \in BOOLEAN, t \in {now, pendingChallenges[key].expiresAt} :
              LET v == verify(Engine, pendingChallenges[key].key, isDM, t) IN
              /\ v.result = "success"
              /\ ~Has(v.e.pendingChallenges, key)
              /\ isAuthenticated(v.e, f.transport, f.chatId)
              /\ \A response \in Responses, t2 \in {t, t + CHALLENGE_EXPIRY_MS} :
                   verify(v.e, response, isDM, t2).result = "expired"
       ELSE \A response \in Responses, isDM \in BOOLEAN :
              verify(Engine, response, isDM, now) = Ret(Engine, "expired")

\* C3, in every step: a chat gets a challenge by createChallenge only.
C3_Step ==
  \A f \in Callers :
    (/\ ~Has(pendingChallenges, makeKey(f.transport, f.chatId))
     /\ Has(pendingChallenges', makeKey(f.transport, f.chatId)))
    => CreateChallenge(f.transport)

\* C3: verifyChallenge with the correct code at now <= expiresAt returns
\* success, deletes the challenge and marks the chat authenticated; every
\* later verifyChallenge for that chat, with no createChallenge in between,
\* returns expired.
C3_SuccessThenExpired == []C3_State /\ [][C3_Step]_vars

\* a chat authenticated by a correct answer, its sender trusted, no challenge left
C3_Witness ==
  \E f \in Callers :
    /\ isAuthenticated(Engine, f.transport, f.chatId)
    /\ isUserTrusted(Engine, f.transport, f.userId)
    /\ ~Has(pendingChallenges, makeKey(f.transport, f.chatId))

\* C4: a direct message whose chat is not locked out, and whose chat is
\* authenticated or whose sender is trusted, is handled as an authenticated
\* direct message (a command or a delivery) and draws no challenge and no
\* prompt, whichever chat the trusted sender writes from.
C4_TrustedSenderNotChallenged ==
  \A msg \in DirectMessages, code \in Codes :
    (/\ ~isBlocked(Engine, msg.transport, msg.chatId, now).result
     /\ \/ isAuthenticated(Engine, msg.transport, msg.chatId)
        \/ isUserTrusted(Engine, msg.transport, msg.userId))
    => LET h == handleMessage(Engine, msg, code, now) IN
       /\ h.outcome \in {"command", "forward"}
       /\ ~Has(h.e.pendingChallenges, makeKey(msg.transport, msg.chatId))

\* C5: an admin command changes engine state only when the message is a
\* direct message and its sender is trusted when it is executed; the same
\* text in a group, or from a sender who is not trusted, changes no channel
\* and no trust.
C5_CommandsNeedTrustedDirectSender ==
  \A msg \in Messages, code \in Codes :
    LET entitled == msg.isDM /\ isUserTrusted(Engine, msg.transport, msg.userId)
        c == handleAdminCommand(Engine, msg)
        h == handleMessage(Engine, msg, code, now)
    IN /\ c.e # Engine => entitled
       /\ (msg.content \in Commands /\ ~entitled) =>
            /\ h.e.trustedUsers = trustedUsers
            /\ h.e.authorizedChannels = authorizedChannels
            /\ h.outcome # "command"

\* a command has authorized a channel, and a sender who is not trusted can
\* write a command to an authenticated chat
C5_Witness ==
  /\ authorizedChannels # EmptyMap
  /\ \E msg \in DirectMessages :
       /\ msg.content \in Commands
       /\ isAuthenticated(Engine, msg.transport, msg.chatId)
       /\ ~isUserTrusted(Engine, msg.transport, msg.userId)
       /\ handleMessage(Engine, msg, "123456", now).outcome = "forward"

\* C6: a group message draws no reply of any kind and no challenge; a denied
\* group message is dropped and never delivered.
C6_GroupMessagesDrawNoReply ==
  \A msg \in GroupMessages, code \in Codes :
    LET h == handleMessage(Engine, msg, code, now) IN
    /\ h.reply = NoReply
    /\ ~h.report
    /\ h.e.pendingChallenges = pendingChallenges
    /\ ~canRespondTo(Engine, msg).result.allowed => h.deliver = "none"

\* C7: once untrustUser has succeeded for a user, no direct message by that
\* user is delivered until the user passes a new challenge, from whichever
\* chat the user writes.
C7_RevokedSenderNotDelivered ==
  \A msg \in DirectMessages, code \in Codes :
    makeUserKey(msg.transport, msg.userId) \in revoked
    => handleMessage(Engine, msg, code, now).deliver = "none"

\* C8: untrustUser for a trusted user removes the user and exactly the
\* channels whose authorizedBy is the user's key, leaves every other channel
\* and trusted user as it was and returns true; for a user who is not trusted
\* it returns false and changes nothing.
C8_UntrustRemovesOwnChannels ==
  \A f \in Users :
    LET key == makeUserKey(f.transport, f.userId)
        r == untrustUser(Engine, f.transport, f.userId)
        others == {ck \in DOMAIN authorizedChannels :
                     authorizedChannels[ck].authorizedBy # key}
    IN IF Has(trustedUsers, key)
       THEN /\ r.result = TRUE
            /\ r.e.trustedUsers = [k \in DOMAIN trustedUsers \ {key} |-> trustedUsers[k]]
            /\ r.e.authorizedChannels = [ck \in others |-> authorizedChannels[ck]]
       ELSE r = Ret(Engine, FALSE)

\* after an earlier revocation: a trusted user with a channel of their own
\* beside the channel of another user
C8_Witness ==
  /\ revoked # {}
  /\ \E f \in Users, ck1, ck2 \in DOMAIN authorizedChannels :
       /\ isUserTrusted(Engine, f.transport, f.userId)
       /\ authorizedChannels[ck1].authorizedBy = makeUserKey(f.transport, f.userId)
       /\ authorizedChannels[ck2].authorizedBy # makeUserKey(f.transport, f.userId)

\* C9: in every reachable state the authorizedBy of each authorized channel
\* is the key of a user now trusted on the channel's transport.
C9_ChannelAuthorizerTrusted ==
  \A ck \in DOMAIN authorizedChannels :
    LET channel == authorizedChannels[ck] IN
    /\ Has(trustedUsers, channel.authorizedBy)
    /\ trustedUsers[channel.authorizedBy].transport = channel.transport

\* a channel stands while a user has been revoked
C9_Witness ==
  /\ authorizedChannels # EmptyMap
  /\ revoked # {}

\* what the five queries answer for the ids of one transport
Ids == {"c1", "c2", "u1", "u2", "g1", "g2"}

Answers(e, transport, t) ==
  [id \in Ids |->
     [isUserTrusted |-> isUserTrusted(e, transport, id),
      isChannelAuthorized |-> isChannelAuthorized(e, transport, id),
      isAuthenticated |-> isAuthenticated(e, transport, id),
      isBlocked |-> isBlocked(e, transport, id, t).result,
      hasPendingChallenge |-> hasPendingChallenge(e, transport, id, t).result]]

\* the engine states that the calls for one transport lead to
EngineResults(transport) ==
  CreateChallengeResults(transport) \cup VerifyChallengeResults(transport)
    \cup TrustUserResults(transport) \cup UntrustUserResults(transport)
    \cup AuthorizeChannelResults(transport) \cup RevokeChannelResults(transport)
    \cup CanRespondToResults(transport) \cup IsBlockedResults(transport)
    \cup HasPendingChallengeResults(transport)

\* C10: a call for one transport changes no answer of isUserTrusted,
\* isChannelAuthorized, isAuthenticated, isBlocked or hasPendingChallenge for
\* any id of another transport, the same ids included.
C10_TransportsIsolated ==
  \A a \in EngineTransports, b \in EngineTransports :
    a # b => \A e \in EngineResults(a) :
               Answers(e, b, now) = Answers(Engine, b, now)

\* the two transports hold different state under the same ids
C10_Witness ==
  /\ isUserTrusted(Engine, "telegram", "u1") /\ ~isUserTrusted(Engine, "whatsapp", "u1")
  /\ isAuthenticated(Engine, "whatsapp", "c1") /\ ~isAuthenticated(Engine, "telegram", "c1")
  /\ isChannelAuthorized(Engine, "telegram", "g1")
  /\ ~isChannelAuthorized(Engine, "whatsapp", "g1")
  /\ isBlocked(Engine, "telegram", "c1", now).result
  /\ ~isBlocked(Engine, "whatsapp", "c1", now).result

\* C11: the messages accepted for delivery are returned by successive
\* waitForMessage calls in the order in which the adapter handed them to the
\* Router, direct and group messages alike: of two different messages that
\* arrive one after the other in the same turn and are both accepted, the
\* first call returns the first and the second call the second.
C11_FeedInOrder ==
  \A m1, m2 \in {m \in Messages : m.content = "hello"}, code \in Codes :
    m1 # m2 =>
      LET batch == <<[msg |-> m1, code |-> code], [msg |-> m2, code |-> code]>>
          d == onMessages(Engine,
                          [messageQueue |-> <<>>, waitingResolver |-> FALSE,
                           resolved |-> <<>>],
                          batch, now)
          w1 == waitForMessage(d.r)
          w2 == waitForMessage(w1.r)
      IN Len(d.r.messageQueue) = 2 => (w1.returned = <<m1>> /\ w2.returned = <<m2>>)

C13_PendingChallengeNotReplaced ==
  \A msg \in Messages, code \in Codes \cup {"654321"} :
    LET h == handleMessage(Engine, msg, code, now) IN
    /\ h.call = "createChallenge" =>
         ~hasPendingChallenge(Engine, msg.transport, msg.chatId, now).result
    /\ \A key \in DOMAIN pendingChallenges :
         (now <= pendingChallenges[key].expiresAt /\ Has(h.e.pendingChallenges, key)) =>
           /\ h.e.pendingChallenges[key].key = pendingChallenges[key].key
           /\ h.e.pendingChallenges[key].expiresAt = pendingChallenges[key].expiresAt
           /\ h.e.pendingChallenges[key].attempts >= pendingChallenges[key].attempts

\* a challenge that has taken two wrong answers and is still pending
C13_Witness ==
  \E key \in DOMAIN pendingChallenges :
    /\ now <= pendingChallenges[key].expiresAt
    /\ pendingChallenges[key].attempts = 2

\* texts that are no attempt: not numeric, or numeric and not 5, 6 or 7 long
C14Silent == {"hello", "12a456", "1234", "12345678", "123 456", "enable c1"}
\* numeric texts of length 5 or 7
C14Reminder == {"12345", "1234567", " 12345 "}
\* texts of exactly 6 digits
C14Attempt == {"000000", "123456"}

\* C14: in an unauthenticated direct-message chat with a pending challenge,
\* text that is not numeric and numeric text not exactly 6 long leave the
\* engine unchanged; text that is not numeric or is numeric of a length other
\* than 5, 6 and 7 draws no reply, numeric text of length 5 or 7 draws only
\* the reminder, and only text of exactly 6 digits reaches verifyChallenge.
C14_NoiseLeavesChallenge ==
  \A f \in Senders, c \in C14Silent \cup C14Reminder \cup C14Attempt, code \in Codes :
    LET msg == Msg(f.transport, f.chatId, f.userId, f.username, c, TRUE, FALSE, "")
        h == handleMessage(Engine, msg, code, now)
    IN (/\ ~isAuthenticated(Engine, f.transport, f.chatId)
        /\ ~isBlocked(Engine, f.transport, f.chatId, now).result
        /\ hasPendingChallenge(Engine, f.transport, f.chatId, now).result)
       => /\ (h.call = "verifyChallenge") <=> (c \in C14Attempt)
          /\ c \notin C14Attempt =>
               /\ h.e = Engine
               /\ h.deliver = "none" /\ ~h.report
               /\ h.reply = IF c \in C14Reminder
                            THEN Reply(f.chatId, "exactly-6-digits", 0)
                            ELSE NoReply

\* an unauthenticated chat whose challenge has taken one wrong answer
C14_Witness ==
  \E f \in Senders :
    /\ ~isAuthenticated(Engine, f.transport, f.chatId)
    /\ ~isBlocked(Engine, f.transport, f.chatId, now).result
    /\ hasPendingChallenge(Engine, f.transport, f.chatId, now).result
    /\ getAttemptsRemaining(Engine, f.transport, f.chatId) = 2

\* C15, in every state: up to the last millisecond of a lockout every message
\* from the chat draws the lockout reply and nothing else (no delivery, no
\* challenge, no verification, no change of the engine); once the lockout has
\* expired a message is handled as if the lockout had never been recorded.
C15_State ==
  \A msg \in Messages, code \in Codes :
    LET key == makeKey(msg.transport, msg.chatId) IN
    Has(blockedUsers, key) =>
      \A t \in {now, blockedUsers[key].until, blockedUsers[key].until + 1} :
        t >= now =>
          LET h == handleMessage(Engine, msg, code, t) IN
          IF t <= blockedUsers[key].until
          THEN /\ h.outcome = "blocked"
               /\ h.reply.chatId = msg.chatId /\ h.reply.text = "too-many-attempts"
               /\ h.deliver = "none" /\ ~h.report /\ h.call = ""
               /\ h.e = Engine
          ELSE h = handleMessage([Engine EXCEPT !.blockedUsers = MapDelete(@, key)],
                                 msg, code, t)

\* a lockout is created with 5 minutes to run
C15_Created ==
  \A key \in DOMAIN blockedUsers' \ DOMAIN blockedUsers :
    blockedUsers'[key].until = now + BLOCK_DURATION_MS

\* C15 as claimed, in every step: a lockout is removed by expiry only.
C15_StepExpiryOnly ==
  /\ C15_Created
  /\ \A key \in DOMAIN blockedUsers \ DOMAIN blockedUsers' :
       now > blockedUsers[key].until

\* C15 as amended, in every step: a lockout is removed by expiry or by
\* clearOnConnect.
C15_StepExpiryOrConnect ==
  /\ C15_Created
  /\ \A key \in DOMAIN blockedUsers \ DOMAIN blockedUsers' :
       \/ now > blockedUsers[key].until
       \/ SetEngine(clearOnConnect(Engine))

C16Refs == {"c1", "general", "#general", "gen", "C9"}

\* the channel a reference stands for: the one the Seen-Channel cache
\* resolves it to, or the channel with that id
C16Target(e, transport, ref) ==
  LET name == stripLeading(ref, "#")
      foundChannel == findChannelByName(e, transport, name)
  IN IF foundChannel # <<>> THEN foundChannel[1].channelId ELSE name

\* enabling the channels of refs by a trusted user in an authenticated chat
\* that is not locked out authorizes the channel each reference stands for,
\* and in mode all every group message in that channel is then delivered
C16Enables(refs) ==
  \A f \in Senders, ref \in refs, code \in Codes :
    (/\ isUserTrusted(Engine, f.transport, f.userId)
     /\ isAuthenticated(Engine, f.transport, f.chatId)
     /\ ~isBlocked(Engine, f.transport, f.chatId, now).result)
    => LET target == C16Target(Engine, f.transport, ref)
           enable(mode) == Msg(f.transport, f.chatId, f.userId, f.username,
                               "enable " \o ref \o mode, TRUE, FALSE, "")
       IN /\ \A mode \in {"", " mentions", " trusted-only"} :
               isChannelAuthorized(handleMessage(Engine, enable(mode), code, now).e,
                                   f.transport, target)
          /\ LET h == handleMessage(Engine, enable(" all"), code, now) IN
             /\ isChannelAuthorized(h.e, f.transport, target)
             /\ \A userId \in {"u1", "u2", "u3"}, mentionsBot \in BOOLEAN :
                  ~isBlocked(h.e, f.transport, target, now).result =>
                    handleMessage(h.e,
                                  Msg(f.transport, target, userId, "", "hello", FALSE,
                                      mentionsBot, ChannelNameOf(target)),
                                  code, now).deliver = "now"

\* C16: the enable command of a trusted user authorizes the channel the
\* Seen-Channel cache resolves the reference to, or the channel whose id is
\* the reference when the cache has no match; after an enable in mode all
\* every group message in that channel, from any sender, is delivered.
C16_EnableAuthorizesRef == C16Enables(C16Refs)

\* after a trusted user in an authenticated chat that is not locked out has
\* enabled the channel of a reference of refs, the same user's disable with
\* the same reference leaves that channel unauthorized
C17Disables(refs) ==
  \A f \in Senders, ref \in refs, code \in Codes :
    (/\ isUserTrusted(Engine, f.transport, f.userId)
     /\ isAuthenticated(Engine, f.transport, f.chatId)
     /\ ~isBlocked(Engine, f.transport, f.chatId, now).result)
    => LET target == C16Target(Engine, f.transport, ref)
           command(text) == Msg(f.transport, f.chatId, f.userId, f.username, text,
                                TRUE, FALSE, "")
           enabled == handleMessage(Engine, command("enable " \o ref), code, now)
           disabled == handleMessage(enabled.e, command("disable " \o ref), code, now)
       IN isChannelAuthorized(enabled.e, f.transport, target)
          => ~isChannelAuthorized(disabled.e, f.transport, target)

\* C17: after a trusted user's enable has authorized a channel, the same
\* user's disable with the same reference revokes it, both when the
\* reference was resolved through the name cache and when it was used as
\* the id.
C17_DisableUndoesEnable == C17Disables({"c1", "general", "#general", "gen"})

\* C18: every Authorized Channel record has one of the modes all, mentions
\* and trusted-only, now and after any enable command of a trusted user in an
\* authenticated chat: the command stores the mode given as its third token,
\* or mentions when it has none.
C18_ModeIsKnown ==
  /\ \A ck \in DOMAIN authorizedChannels : authorizedChannels[ck].mode \in Modes
  /\ \A f \in Senders, code \in Codes,
        token \in {"", "all", "mentions", "trusted-only", "everyone"} :
       (/\ isUserTrusted(Engine, f.transport, f.userId)
        /\ isAuthenticated(Engine, f.transport, f.chatId)
        /\ ~isBlocked(Engine, f.transport, f.chatId, now).result)
       => LET h == handleMessage(Engine,
                                 Msg(f.transport, f.chatId, f.userId, f.username,
                                     "enable c1 " \o token, TRUE, FALSE, ""),
                                 code, now)
              channels == h.e.authorizedChannels
          IN /\ \A ck \in DOMAIN channels : channels[ck].mode \in Modes
             /\ channels[makeChannelKey(f.transport, "c1")].mode =
                  IF token = "" THEN "mentions" ELSE token

\* the ways a revoke command can name the user f
C19SelfRefs(f) ==
  {f.userId, "@" \o f.userId, f.username, "@" \o f.username,
   IF f.username = "bob" THEN "@Bob" ELSE "Alice"}

\* C19: a revoke command that names its own sender is rejected: the sender
\* stays trusted, no channel authorization is removed and the ledger is not
\* rewritten (the engine is left as it was); and no message, whatever command
\* it carries, ends the trust of the user who sent it.
C19_SelfRevokeRejected ==
  /\ \A msg \in Messages, code \in Codes :
       isUserTrusted(Engine, msg.transport, msg.userId) =>
         isUserTrusted(handleMessage(Engine, msg, code, now).e, msg.transport,
                       msg.userId)
  /\ \A f \in Senders, code \in Codes : \A ref \in C19SelfRefs(f) :
       (/\ isUserTrusted(Engine, f.transport, f.userId)
        /\ isAuthenticated(Engine, f.transport, f.chatId)
        /\ ~isBlocked(Engine, f.transport, f.chatId, now).result)
       => LET h == handleMessage(Engine,
                                 Msg(f.transport, f.chatId, f.userId, f.username,
                                     "revoke " \o ref, TRUE, FALSE, ""),
                                 code, now)
          IN /\ h.e = Engine
             /\ h.reply = Reply(f.chatId, "cannot-revoke-own-trust", 0)
             /\ h.deliver = "none"

\* a trusted user in an authenticated chat who has authorized a channel, with
\* another user trusted beside them
C19_Witness ==
  \E f \in Senders :
    /\ isUserTrusted(Engine, f.transport, f.userId)
    /\ isAuthenticated(Engine, f.transport, f.chatId)
    /\ ~isBlocked(Engine, f.transport, f.chatId, now).result
    /\ \E ck \in DOMAIN authorizedChannels :
         authorizedChannels[ck].authorizedBy = makeUserKey(f.transport, f.userId)
    /\ Cardinality(DOMAIN trustedUsers) = 2
    /\ ledger # <<>>

\* whether a stored date is no earlier than TRUST_EXPIRY_DAYS before now
C20Recent(last) ==
  LET n == toISOString(now) IN
  \/ last.day > n.day - TRUST_EXPIRY_DAYS
  \/ last.day = n.day - TRUST_EXPIRY_DAYS /\ last.ms >= n.ms

\* C20: initialize on a new engine, with a working store that holds a ledger
\* of the current version, loads an entry as a trusted user exactly if its inactivity does
\* not exceed 30 days; an entry inactive for longer is not trusted afterwards,
\* and when an entry was dropped the ledger is rewritten to hold exactly the
\* entries that were loaded.
C20_LoadDropsInactiveUsers ==
  (/\ ~secretStorage /\ ~storeFailing
   /\ ledger # <<>> /\ ledger[1].version = STORAGE_VERSION) =>
    LET stored == ledger[1].trustedUsers
        survivors == {key \in DOMAIN stored : C20Recent(stored[key].lastActiveAt)}
        i == initialize(Engine, now)
    IN /\ DOMAIN i.trustedUsers = survivors
       /\ \A key \in survivors : i.trustedUsers[key] = stored[key]
       /\ \A f \in Users :
            isUserTrusted(i, f.transport, f.userId) <=>
              makeUserKey(f.transport, f.userId) \in survivors
       /\ survivors # DOMAIN stored =>
            i.ledger = <<[trustedUsers |-> [key \in survivors |-> stored[key]],
                          version |-> STORAGE_VERSION]>>

\* at activation, some time into the day, the ledger holds a user last active
\* exactly 30 days ago and a user last active a little earlier
C20_Witness ==
  /\ ~secretStorage /\ ~storeFailing /\ now > 0
  /\ ledger # <<>> /\ ledger[1].version = STORAGE_VERSION
  /\ \E k1, k2 \in DOMAIN ledger[1].trustedUsers :
       /\ ledger[1].trustedUsers[k1].lastActiveAt =
            [day |-> -TRUST_EXPIRY_DAYS, ms |-> now]
       /\ ledger[1].trustedUsers[k2].lastActiveAt =
            [day |-> -TRUST_EXPIRY_DAYS, ms |-> 0]

\* the step in which the last call of secretStorage.store in flight returns,
\* with the store working
C21_Completes == storing # <<>> /\ storing' = <<>> /\ ~storeFailing

C22Channels == {"c1", "c2", "g1", "g2"}

C23_ActivityAdvancesLastActive ==
  \A msg \in Messages, code \in Codes :
    LET h == handleMessage(Engine, msg, code, now)
        key == makeUserKey(msg.transport, msg.userId)
    IN (/\ isUserTrusted(Engine, msg.transport, msg.userId)
        /\ h.outcome \in {"forward", "command"}
        /\ isUserTrusted(h.e, msg.transport, msg.userId))
       => h.e.trustedUsers[key].lastActiveAt = toISOString(now)

\* the records of a channel map for the channel channelId of a transport
C24Records(channels, transport, channelId) ==
  {ck \in DOMAIN channels :
     channels[ck].transport = transport /\ channels[ck].channelId = channelId}

\* the users that call, trusted or not
C24UserIds == {"u1", "u2", "u3"}

\* C24: authorizeChannel returns false and leaves the engine as it was when
\* byUserId is not trusted on the transport; otherwise it returns true, and
\* afterwards the channel has exactly one record, with the new name and mode
\* and the caller's key as authorizedBy, while the records of the other
\* channels and the rest of the engine are as before.
C24_AuthorizeChannelContract ==
  \A transport \in EngineTransports, channelId \in {"g1", "g2"},
     byUserId \in C24UserIds, channelName \in {"", "General"}, mode \in Modes :
    LET r == authorizeChannel(Engine, transport, channelId, byUserId, channelName, mode)
        userKey == transport \o ":" \o byUserId
        after == r.e.authorizedChannels
        own == C24Records(after, transport, channelId)
    IN IF userKey \notin DOMAIN trustedUsers
       THEN r.result = FALSE /\ r.e = Engine
       ELSE /\ r.result = TRUE
            /\ Cardinality(own) = 1
            /\ \A ck \in own :
                 /\ after[ck].mode = mode
                 /\ after[ck].authorizedBy = userKey
                 /\ after[ck].channelName = channelName
            /\ DOMAIN after = DOMAIN authorizedChannels \cup own
            /\ \A ck \in DOMAIN after \ own : after[ck] = authorizedChannels[ck]
            /\ [r.e EXCEPT !.authorizedChannels = authorizedChannels] = Engine

\* a channel authorized by one user in mode all, with a second user trusted
\* on the transport who can authorize it again, and a user who is not trusted
C24_Witness ==
  /\ Has(authorizedChannels, "telegram:g1")
  /\ authorizedChannels["telegram:g1"].mode = "all"
  /\ authorizedChannels["telegram:g1"].authorizedBy = "telegram:u1"
  /\ {"telegram:u1", "telegram:u2"} \subseteq DOMAIN trustedUsers
  /\ "whatsapp:u1" \notin DOMAIN trustedUsers

\* C25: revokeChannel returns false and leaves the engine as it was when the
\* channel is not authorized or byUserId is not trusted on the transport;
\* otherwise it returns true and deletes the record of that channel and
\* nothing else, whether byUserId authorized the channel or not.
C25_RevokeChannelContract ==
  \A transport \in EngineTransports, channelId \in {"g1", "g2"},
     byUserId \in C24UserIds :
    LET r == revokeChannel(Engine, transport, channelId, byUserId)
        channelKey == transport \o ":" \o channelId
        userKey == transport \o ":" \o byUserId
        after == r.e.authorizedChannels
    IN IF channelKey \notin DOMAIN authorizedChannels \/ userKey \notin DOMAIN trustedUsers
       THEN r.result = FALSE /\ r.e = Engine
       ELSE /\ r.result = TRUE
            /\ DOMAIN after = DOMAIN authorizedChannels \ {channelKey}
            /\ \A ck \in DOMAIN after : after[ck] = authorizedChannels[ck]
            /\ [r.e EXCEPT !.authorizedChannels = authorizedChannels] = Engine

\* a channel authorized by one user while another user of the transport is
\* trusted (and can revoke it), beside a second authorized channel
C25_Witness ==
  /\ Has(authorizedChannels, "telegram:g2")
  /\ authorizedChannels["telegram:g2"].authorizedBy = "telegram:u2"
  /\ {"telegram:u1", "telegram:u2"} \subseteq DOMAIN trustedUsers
  /\ Has(authorizedChannels, "telegram:g1")

\* the record trustUser makes for the user f at the current time
C26Trusted(f) ==
  [transport |-> f.transport, userId |-> f.userId, username |-> f.username,
   dmChatId |-> f.chatId, authenticatedAt |-> toISOString(now),
   lastActiveAt |-> toISOString(now)]

\* C26: with a store that rejects its calls, initialize returns with no
\* trusted user and an engine that works (a user can be trusted, a challenge
\* answered); and trustUser, a direct-message verifyChallenge with the right
\* code and untrustUser change the trust in memory and return their normal
\* results, with the ledger left as it was.
C26_StoreFailureIsHarmless ==
  /\ (~secretStorage /\ storeFailing) =>
       LET i == initialize(Engine, now) IN
       /\ i.trustedUsers = EmptyMap /\ i.authenticatedChats = {}
       /\ i.ledger = ledger
       /\ \A f \in Users, code \in Codes :
            /\ storeSettlesAll(trustUser(i, f.transport, f.userId, f.username,
                                         f.chatId, now)).trustedUsers
                 = [k \in {f.transport \o ":" \o f.userId} |-> C26Trusted(f)]
            /\ verifyChallenge(createChallenge(i, f.transport, f.chatId, code, now),
                               f.transport, f.chatId, code, f.userId, f.username,
                               TRUE, now).result = "success"
  /\ (secretStorage /\ storeFailing) =>
       \A f \in Users :
         LET key == f.transport \o ":" \o f.userId
             t == storeSettlesAll(trustUser(Engine, f.transport, f.userId, f.username,
                                            f.chatId, now))
             u == untrustUser(Engine, f.transport, f.userId)
             chat == f.transport \o ":" \o f.chatId
             v == verifyChallenge(Engine, f.transport, f.chatId,
                                  pendingChallenges[chat].key, f.userId, f.username,
                                  TRUE, now)
         IN /\ key \in DOMAIN t.trustedUsers /\ t.trustedUsers[key] = C26Trusted(f)
            /\ t.ledger = ledger /\ t.storing = <<>>
            /\ u.result = (key \in DOMAIN trustedUsers)
            /\ key \notin DOMAIN storeSettlesAll(u.e).trustedUsers
            /\ storeSettlesAll(u.e).ledger = ledger
            /\ (chat \in DOMAIN pendingChallenges /\ now <= pendingChallenges[chat].expiresAt)
               => /\ v.result = "success"
                  /\ storeSettlesAll(v.e).trustedUsers[key] = C26Trusted(f)
                  /\ chat \in storeSettlesAll(v.e).authenticatedChats
                  /\ storeSettlesAll(v.e).ledger = ledger

\* the store rejects calls and has already lost the ledger of a trusted user;
\* a challenge is pending
C26_Witness ==
  /\ secretStorage /\ storeFailing /\ storing = <<>>
  /\ trustedUsers # EmptyMap /\ ledger = <<>>
  /\ pendingChallenges # EmptyMap

\* C27: initialize on a new engine whose store holds a ledger of another
\* version than STORAGE_VERSION loads no trusted user and marks no chat
\* authenticated, and leaves the ledger as it is: for the ledger in the
\* store, and for every document of another version with users of any age.
C27_OtherVersionLoadsNothing ==
  ~secretStorage =>
    /\ (ledger # <<>> /\ ledger[1].version # STORAGE_VERSION) =>
         LET i == initialize(Engine, now) IN
         /\ i.trustedUsers = EmptyMap
         /\ i.authenticatedChats = {}
         /\ i.ledger = ledger
    /\ \A version \in OtherVersions, g \in [Users -> LastActives] :
         LET document == StoredDocument(g, version)
             i == initialize([Engine EXCEPT !.ledger = <<document>>], now)
         IN /\ i.trustedUsers = EmptyMap
            /\ i.authenticatedChats = {}
            /\ i.ledger = <<document>>

\* at activation the store works and holds a ledger of another version with
\* users in it who are not expired
C27_Witness ==
  /\ ~secretStorage /\ ~storeFailing /\ now > 0
  /\ ledger # <<>> /\ ledger[1].version # STORAGE_VERSION
  /\ \E key \in DOMAIN ledger[1].trustedUsers :
       C20Recent(ledger[1].trustedUsers[key].lastActiveAt)

\* the number a string of decimal digits stands for
RECURSIVE C28Value(_)
C28Value(s) ==
  IF s = "" THEN 0
  ELSE 10 * C28Value(SubSeq(s, 1, Len(s) - 1))
       + (CHOOSE d \in 0..9 : DigitOf(d) = SubSeq(s, Len(s), Len(s)))

\* C28: the code generateCode returns, whatever the random number drawn, is
\* a string of exactly 6 decimal digits with a value in 100000..999999: so
\* is the code of every challenge.
C28_CodeIsSixDigits ==
  \A k \in DOMAIN pendingChallenges :
    LET code == pendingChallenges[k].key IN
    /\ Len(code) = 6
    /\ \A i \in 1..6 : SubSeq(code, i, i) \in Digits
    /\ C28Value(code) \in 100000..999999

\* a challenge with the code of the largest random number, and the code of
\* the smallest random number
C28_Witness ==
  /\ \E k \in DOMAIN pendingChallenges :
       pendingChallenges[k].key = generateCode(RandomSteps - 1)
  /\ generateCode(0) = "100000"

\* the replies to wrong codes among the replies of a turn, in their order
C29Reports(replies) == SelectSeq(replies, LAMBDA reply : reply.text = "incorrect-code")

\* C29: a reply to a wrong 6-digit code reports 3 minus the number of wrong
\* attempts made on the challenge up to and including this one, for a wrong
\* code that arrives alone and for two wrong codes for the same chat that
\* arrive in the same turn.
C29_RemainingCountsThisAttempt ==
  \A f \in Senders, code \in Codes :
    LET key == f.transport \o ":" \o f.chatId
        wrong == [msg |-> Msg(f.transport, f.chatId, f.userId, f.username,
                              "000000", TRUE, FALSE, ""),
                  code |-> code]
        attempts == pendingChallenges[key].attempts
        one == C29Reports(onMessages(Engine, Router, <<wrong>>, now).replies)
        two == C29Reports(onMessages(Engine, Router, <<wrong, wrong>>, now).replies)
    IN (/\ key \in DOMAIN pendingChallenges
        /\ now <= pendingChallenges[key].expiresAt
        /\ key \notin authenticatedChats
        /\ ~isBlocked(Engine, f.transport, f.chatId, now).result)
       => /\ attempts + 1 < MAX_ATTEMPTS =>
               Len(one) = 1 /\ one[1].n = MAX_ATTEMPTS - (attempts + 1)
          /\ attempts + 2 < MAX_ATTEMPTS =>
               /\ Len(two) = 2
               /\ two[1].n = MAX_ATTEMPTS - (attempts + 1)
               /\ two[2].n = MAX_ATTEMPTS - (attempts + 2)

\* the chats that have a challenge, a lockout or an authentication
C30Chats == DOMAIN pendingChallenges \cup DOMAIN blockedUsers \cup authenticatedChats

\* C30: in every state reached through the Router a chat is in one state
\* only: no chat has a pending challenge together with a lockout, no
\* authenticated chat has a pending challenge, and no authenticated chat is
\* locked out.
C30_OneChallengeStatePerChat ==
  \A key \in C30Chats :
    /\ ~(key \in DOMAIN pendingChallenges /\ key \in DOMAIN blockedUsers)
    /\ ~(key \in authenticatedChats /\ key \in DOMAIN pendingChallenges)
    /\ ~(key \in authenticatedChats /\ key \in DOMAIN blockedUsers)

\* one chat is authenticated while the other is locked out after three wrong
\* codes
C30_Witness ==
  /\ "telegram:c1" \in authenticatedChats
  /\ "telegram:c2" \in DOMAIN blockedUsers
  /\ now <= blockedUsers["telegram:c2"].until

\* C31: a challenge expires lazily, when it is used.  In every state, for a
\* chat whose challenge has now > expiresAt: hasPendingChallenge returns false
\* and deletes the challenge; verifyChallenge returns expired for the correct
\* code too; and a direct message from the chat (not authenticated), whatever
\* its content, a 6-digit code and the correct code included, creates a new
\* challenge with the code generateCode draws, zero attempts and an expiry
\* 2 minutes from now, and draws only the authentication-required prompt.
C31_ExpiryIsLazy ==
  \A f \in Senders :
    LET key == makeKey(f.transport, f.chatId) IN
    (Has(pendingChallenges, key) /\ now > pendingChallenges[key].expiresAt) =>
      /\ LET p == hasPendingChallenge(Engine, f.transport, f.chatId, now) IN
           /\ ~p.result
           /\ p.e = [Engine EXCEPT !.pendingChallenges = MapDelete(@, key)]
      /\ verifyChallenge(Engine, f.transport, f.chatId, pendingChallenges[key].key,
                         f.userId, f.username, TRUE, now).result = "expired"
      /\ ~isAuthenticated(Engine, f.transport, f.chatId) =>
           \A c \in DirectContents \cup C14Reminder \cup {pendingChallenges[key].key},
              code \in Codes \cup {"654321"} :
             LET msg == Msg(f.transport, f.chatId, f.userId, f.username, c,
                            TRUE, FALSE, "")
                 h == handleMessage(Engine, msg, code, now)
             IN /\ h.call = "createChallenge"
                /\ h.reply = Reply(f.chatId, "authentication-required", 0)
                /\ h.deliver = "none" /\ ~h.report
                /\ h.e.pendingChallenges =
                     MapSet(pendingChallenges, key,
                            [key |-> code, expiresAt |-> now + CHALLENGE_EXPIRY_MS,
                             attempts |-> 0])
                /\ h.e.authenticatedChats = authenticatedChats
                /\ h.e.trustedUsers = trustedUsers

\* an unauthenticated chat whose challenge has taken a wrong answer and has
\* expired since, not yet looked at
C31_Witness ==
  \E f \in Senders :
    LET key == makeKey(f.transport, f.chatId) IN
    /\ Has(pendingChallenges, key)
    /\ now > pendingChallenges[key].expiresAt
    /\ pendingChallenges[key].attempts > 0
    /\ ~isAuthenticated(Engine, f.transport, f.chatId)

\* the times a lockout that ends at until is asked about: the clock, the
\* first and the last millisecond of the lockout, and times after it
C32Times(until) ==
  {now, until - BLOCK_DURATION_MS, until - 1, until, until + 1, until + 60 * 1000}

\* C32: getBlockTimeRemaining returns the whole minutes left of a lockout,
\* rounded up: a value from 1 to 5 while the lockout is active (recorded and
\* not after its end), and 0 when the chat has no active lockout, none
\* recorded or one recorded and expired; the minutes in the lockout reply of
\* the Router are from 1 to 5.
C32_BlockTimeRemainingInRange ==
  \A f \in Senders :
    LET key == makeKey(f.transport, f.chatId)
        times == IF Has(blockedUsers, key) THEN C32Times(blockedUsers[key].until)
                 ELSE {now}
    IN \A t \in times :
         /\ LET mins == getBlockTimeRemaining(Engine, f.transport, f.chatId, t) IN
              IF Has(blockedUsers, key) /\ t <= blockedUsers[key].until
              THEN /\ mins \in 1..5
                   /\ (mins - 1) * 60 * 1000 < blockedUsers[key].until - t
                   /\ blockedUsers[key].until - t <= mins * 60 * 1000
              ELSE mins = 0
         /\ \A c \in DirectContents, code \in Codes :
              LET h == handleMessage(Engine,
                                     Msg(f.transport, f.chatId, f.userId, f.username,
                                         c, TRUE, FALSE, ""),
                                     code, t)
              IN h.reply.text = "too-many-attempts" => h.reply.n \in 1..5

\* who answers a challenge: the callers, and another user writing in the
\* chat of a caller
C33Answerers == Callers \cup {From("telegram", "c1", "u2", "bob")}

\* C33: a successful verifyChallenge with isDM true sets the Trusted User of
\* (transport, userId) to a record with dmChatId the chat, whether or not the
\* user was trusted before, and writes the ledger: a store call with the new
\* trusted users is issued, and is the ledger once the calls have returned
\* from a store that accepts them.  With isDM false it marks the chat
\* authenticated and leaves the trusted users, the ledger and the store calls
\* as they were.  A wrong or blocked outcome leaves the trusted users, the
\* authenticated chats, the ledger and the store calls as they were.
C33_VerifyTrustsOnlyDirect ==
  \A f \in C33Answerers, response \in Responses, isDM \in BOOLEAN :
    LET chat == f.transport \o ":" \o f.chatId
        user == f.transport \o ":" \o f.userId
        v == verifyChallenge(Engine, f.transport, f.chatId, response, f.userId,
                             f.username, isDM, now)
        trusted == [k \in DOMAIN trustedUsers \cup {user} |->
                      IF k = user THEN C26Trusted(f) ELSE trustedUsers[k]]
        document == [trustedUsers |-> trusted, version |-> STORAGE_VERSION]
    IN /\ (v.result = "success" /\ isDM) =>
            /\ v.e.authenticatedChats = authenticatedChats \cup {chat}
            /\ v.e.trustedUsers = trusted
            /\ v.e.trustedUsers[user].dmChatId = f.chatId
            /\ secretStorage =>
                 /\ v.e.storing = storing \o <<document>>
                 /\ v.e.ledger = ledger
                 /\ ~storeFailing => storeSettlesAll(v.e).ledger = <<document>>
       /\ (v.result = "success" /\ ~isDM) =>
            /\ v.e.authenticatedChats = authenticatedChats \cup {chat}
            /\ v.e.trustedUsers = trustedUsers
            /\ v.e.ledger = ledger /\ v.e.storing = storing
       /\ v.result \in {"wrong", "blocked"} =>
            /\ v.e.trustedUsers = trustedUsers
            /\ v.e.authenticatedChats = authenticatedChats
            /\ v.e.ledger = ledger /\ v.e.storing = storing

\* a chat authenticated by a verifyChallenge that trusted nobody, a challenge
\* of the other caller that has taken two wrong answers, and a trusted user
\* in a ledger the store has accepted
C33_Witness ==
  /\ secretStorage /\ ~storeFailing
  /\ \E f \in Callers :
       /\ (f.transport \o ":" \o f.chatId) \in authenticatedChats
       /\ (f.transport \o ":" \o f.userId) \notin DOMAIN trustedUsers
  /\ \E key \in DOMAIN pendingChallenges : pendingChallenges[key].attempts = 2
  /\ ledger # <<>> /\ ledger[1].trustedUsers # EmptyMap

\* createChallenge replaces the challenge of the chat of f by one with the
\* code drawn, no attempts and an expiry 2 minutes from now, and leaves the
\* challenges of the other chats and the rest of the engine as they were
C34Replaces(f, code) ==
  LET key == f.transport \o ":" \o f.chatId
      e == createChallenge(Engine, f.transport, f.chatId, code, now)
  IN /\ DOMAIN e.pendingChallenges = DOMAIN pendingChallenges
     /\ e.pendingChallenges[key] =
          [key |-> code, expiresAt |-> now + CHALLENGE_EXPIRY_MS, attempts |-> 0]
     /\ \A k \in DOMAIN pendingChallenges \ {key} :
          e.pendingChallenges[k] = pendingChallenges[k]
     /\ e = [Engine EXCEPT !.pendingChallenges = e.pendingChallenges]
     /\ verifyChallenge(e, f.transport, f.chatId, code, f.userId, f.username,
                        TRUE, now).result = "success"

\* the answer to the code the chat of f had before createChallenge drew code
C34Previous(f, code) ==
  verifyChallenge(createChallenge(Engine, f.transport, f.chatId, code, now),
                  f.transport, f.chatId,
                  pendingChallenges[f.transport \o ":" \o f.chatId].key,
                  f.userId, f.username, TRUE, now).result

C35Seen ==
  {<<"telegram", "g7", "Dev-General">>, <<"telegram", "g8", "GENERAL">>,
   <<"discord", "d1", "general">>, <<"discord", "d2", "Lobby">>}

\* the engine after up to two more group messages have been tracked
C35Caches ==
  {Engine}
    \cup {trackChannel(Engine, a[1], a[2], a[3]) : a \in C35Seen}
    \cup {trackChannel(trackChannel(Engine, a[1], a[2], a[3]), b[1], b[2], b[3]) :
            a \in C35Seen, b \in C35Seen}

C35Queries == {"general", "General", "GEN", "#general", "lobby", "dev", ""}

\* the cache after an observation: the entry of the key replaced where it
\* stands, or a new entry at the end
C35Tracked(seen, transport, channelId, channelName) ==
  LET key == transport \o ":" \o toLowerCase(channelName)
      entry == [key |-> key, channelId |-> channelId, channelName |-> channelName]
  IN IF \E i \in 1..Len(seen) : seen[i].key = key
     THEN [i \in 1..Len(seen) |-> IF seen[i].key = key THEN entry ELSE seen[i]]
     ELSE seen \o <<entry>>

\* r is what findChannelByName is to return for the query
C35Found(seen, transport, query, r) ==
  LET key == transport \o ":" \o toLowerCase(query)
      named(i) == /\ startsWith(seen[i].key, transport \o ":")
                  /\ includes(toLowerCase(seen[i].channelName), toLowerCase(query))
  IN /\ (\E i \in 1..Len(seen) : seen[i].key = key) =>
          /\ r # <<>> /\ r[1].key = key /\ r[1] \in {seen[i] : i \in 1..Len(seen)}
     /\ (/\ \A i \in 1..Len(seen) : seen[i].key # key
         /\ \E i \in 1..Len(seen) : named(i)) =>
          \E i \in 1..Len(seen) :
            /\ named(i) /\ r = <<seen[i]>>
            /\ \A j \in 1..(i - 1) : ~named(j)
     /\ (\A i \in 1..Len(seen) : seen[i].key # key /\ ~named(i)) => r = <<>>
     /\ r # <<>> => startsWith(r[1].key, transport \o ":")

\* C35: every group message with a channel name is recorded in the
\* Seen-Channel cache whatever the Router decides about it, under (transport,
\* lowercase name), the latest observation replacing the earlier one of that
\* name; a group message without a name and a direct message leave the cache
\* as it is.  findChannelByName returns the entry of the lowercased query on
\* the transport if there is one, otherwise the first entry of the transport
\* whose name contains the query without regard to case, otherwise nothing,
\* and never an entry of another transport.
C35_SeenChannelCache ==
  /\ \A msg \in Messages, name \in {"General", "GENERAL", "Lobby", ""},
        code \in Codes :
       LET m == [msg EXCEPT !.channelName = IF msg.isDM THEN "" ELSE name]
           h == handleMessage(Engine, m, code, now)
       IN h.e.seenChannels =
            IF ~m.isDM /\ m.channelName # ""
            THEN C35Tracked(seenChannels, m.transport, m.chatId, m.channelName)
            ELSE seenChannels
  /\ \A e \in C35Caches, transport \in {"telegram", "discord"}, query \in C35Queries :
       C35Found(e.seenChannels, transport, query,
                findChannelByName(e, transport, query))

\* the number of times the message m has been returned by a call, and the
\* number of times it stands in the queue
C36Returned(m) == Cardinality({c \in 1..Len(calls) : calls[c].returned = <<m>>})
C36Queued(m) == Cardinality({i \in 1..Len(messageQueue) : messageQueue[i] = m})

\* C36: every message accepted for delivery is, in every state, either in
\* the queue, once, or returned by exactly one waitForMessage call, and not
\* both; nothing is in the queue or returned that was not accepted; whatever
\* the order of arrivals, calls and cancellations.
C36_HandedOverOnce ==
  /\ \A i \in 1..Len(accepted) :
       C36Returned(accepted[i]) + C36Queued(accepted[i]) = 1
  /\ \A i \in 1..Len(messageQueue) :
       \E j \in 1..Len(accepted) : messageQueue[i] = accepted[j]
  /\ \A c \in 1..Len(calls) :
       /\ calls[c].returned # <<>> =>
            \E j \in 1..Len(accepted) : calls[c].returned = <<accepted[j]>>
       /\ calls[c].returned # <<>> <=> calls[c].state = "resolved"

\* one call was cancelled while it waited, one got its message from the
\* waiter, one from the queue, and a message is still in the queue
C36_Witness ==
  /\ \E c \in 1..Len(calls) : calls[c].state = "rejected"
  /\ \E c \in 1..Len(calls) : calls[c].state = "resolved" /\ calls[c].listening
  /\ \E c \in 1..Len(calls) : calls[c].state = "resolved" /\ ~calls[c].listening
                                /\ c > 1 /\ calls[c - 1].state = "rejected"
  /\ messageQueue # <<>>

\* C37: a call of the consumer that waits and has not been cancelled keeps
\* its registration: its resolve is the waitingResolver, so that the next
\* message accepted for delivery resolves it, also after the token of an
\* earlier call that has completed is cancelled.
C37_WaiterStaysRegistered ==
  \A c \in 1..Len(calls) :
    calls[c].state = "pending" =>
      /\ waitingResolver /\ resolverOf = c
      /\ \A m \in ConsumerMessages :
           deliver(Router, m).resolved = <<m>>

\* C38: a waiter is registered only while the queue is empty: a message
\* delivered while a waiter is registered is not appended to the queue, and
\* waitForMessage registers no waiter while the queue holds a message.
C38_WaiterOnlyWithEmptyQueue ==
  /\ waitingResolver => messageQueue = <<>>
  /\ \A m \in ConsumerMessages :
       waitingResolver => deliver(Router, m).messageQueue = messageQueue
  /\ messageQueue # <<>> => ~waitForMessage(Router).r.waitingResolver

\* the consumer waits again after it has taken two messages, one from the
\* waiter and one from the queue
C38_Witness ==
  /\ waitingResolver /\ messageQueue = <<>>
  /\ Len(calls) = 3 /\ Len(accepted) >= 2
  /\ calls[1].state = "resolved" /\ calls[2].state = "resolved"
  /\ ~calls[2].listening

\* C39: clearOnConnect removes every pending challenge and every lockout and
\* leaves the authenticated chats, the trusted users, the authorized channels
\* and the ledger, with the store calls in flight, as they were; afterwards
\* no chat is locked out and no chat has a pending challenge.
C39_ClearOnConnectFrame ==
  LET e == clearOnConnect(Engine) IN
  /\ DOMAIN e.pendingChallenges = {}
  /\ DOMAIN e.blockedUsers = {}
  /\ e.authenticatedChats = authenticatedChats
  /\ e.trustedUsers = trustedUsers
  /\ e.authorizedChannels = authorizedChannels
  /\ e.ledger = ledger /\ e.storing = storing
  /\ e.seenChannels = seenChannels
  /\ \A f \in Senders :
       /\ ~isBlocked(e, f.transport, f.chatId, now).result
       /\ ~hasPendingChallenge(e, f.transport, f.chatId, now).result
       /\ getAttemptsRemaining(e, f.transport, f.chatId) = 0
       /\ isAuthenticated(e, f.transport, f.chatId)
            = isAuthenticated(Engine, f.transport, f.chatId)
       /\ isUserTrusted(e, f.transport, f.userId)
            = isUserTrusted(Engine, f.transport, f.userId)

\* one chat is locked out, the other is authenticated, its user is trusted
\* and in the ledger, and a channel is authorized
C39_Witness ==
  /\ \E key \in DOMAIN blockedUsers : now <= blockedUsers[key].until
  /\ authenticatedChats # {}
  /\ DOMAIN trustedUsers # {}
  /\ DOMAIN authorizedChannels # {}
  /\ ledger # <<>>

\* C40: the attempt counter of a challenge in the map is 0, 1 or 2.  A wrong
\* answer to a challenge that has not expired and has taken two deletes the
\* challenge in the step that creates the lockout; an earlier wrong answer
\* adds one to the counter.  getAttemptsRemaining returns 3 less the counter,
\* that is 3, 2 or 1, for a chat with a challenge and 0 for a chat without.
C40_AttemptsBelowThree ==
  /\ \A key \in DOMAIN pendingChallenges : pendingChallenges[key].attempts \in {0, 1, 2}
  /\ \A f \in Callers :
       LET key == f.transport \o ":" \o f.chatId
           remaining == getAttemptsRemaining(Engine, f.transport, f.chatId)
           v == verifyChallenge(Engine, f.transport, f.chatId, "000000", f.userId,
                                f.username, TRUE, now)
       IN IF key \notin DOMAIN pendingChallenges THEN remaining = 0
          ELSE /\ remaining = 3 - pendingChallenges[key].attempts
               /\ remaining \in {1, 2, 3}
               /\ (now <= pendingChallenges[key].expiresAt
                     /\ pendingChallenges[key].key # "000000") =>
                    IF pendingChallenges[key].attempts = 2
                    THEN /\ v.result = "blocked"
                         /\ key \notin DOMAIN v.e.pendingChallenges
                         /\ key \in DOMAIN v.e.blockedUsers
                         /\ getAttemptsRemaining(v.e, f.transport, f.chatId) = 0
                    ELSE /\ v.result = "wrong"
                         /\ v.e.pendingChallenges[key].attempts
                              = pendingChallenges[key].attempts + 1
                         /\ key \notin DOMAIN v.e.blockedUsers
                              \ DOMAIN blockedUsers

\* a chat locked out by its third wrong answer, without a challenge, while
\* the challenge of the other chat has taken two
C40_Witness ==
  \E f, g \in Callers :
    /\ (f.transport \o ":" \o f.chatId) \in DOMAIN blockedUsers
    /\ (f.transport \o ":" \o f.chatId) \notin DOMAIN pendingChallenges
    /\ (g.transport \o ":" \o g.chatId) \in DOMAIN pendingChallenges
    /\ pendingChallenges[g.transport \o ":" \o g.chatId].attempts = 2

====
